---- MODULE Spec2Model ----
(***************************************************************************)
(* A model of the xrpl-tx-codec binary serializer: the field layer        *)
(* (codec/src/field.rs), the primitive types (codec/src/types.rs), the    *)
(* transaction constructors (codec/src/transaction.rs) and the code the   *)
(* Transaction derive macro generates (utils/src/lib.rs).                 *)
(*                                                                         *)
(* Byte strings are sequences of naturals in 0..255.  TLC integers are    *)
(* 32 bits wide, so a u32 is a sequence of two and a u64 a sequence of    *)
(* four 16-bit limbs, most significant first; a u16 is a natural.         *)
(***************************************************************************)
EXTENDS Integers, Sequences, FiniteSets, TLC

VARIABLES tx, field, buf, op, data_len, prefix, overflow_checks, args, issued_value, issued_amount,
          primitive

vars == <<tx, field, buf, op, data_len, prefix, overflow_checks, args, issued_value, issued_amount,
          primitive>>

---------------------------------------------------------------------------
(* Bounds of the model *)

\* longest blob payload drawn densely for a stand-alone field
MaxBlobLen == 2
\* lengths 0..MaxDenseLen are all tried by the length-prefix specification
MaxDenseLen == 13100
\* number of strided samples taken above MaxDenseLen
MaxSamples == 225

---------------------------------------------------------------------------
(* Integer and byte helpers *)

Rep(b, n) == [i \in 1..n |-> b]

\* `as u8`
AsU8(x) == x % 256

\* `as u16`
AsU16(x) == x % 65536

\* `|` on unsigned integers
RECURSIVE BitOr(_, _)
BitOr(a, b) ==
    IF a = 0 THEN b
    ELSE IF b = 0 THEN a
    ELSE (IF a % 2 = 1 \/ b % 2 = 1 THEN 1 ELSE 0) + 2 * BitOr(a \div 2, b \div 2)

\* `<<` on a u16: bits shifted out of the 16 are lost
Shl16(a, k) == (a * 2^k) % 65536

\* a natural below 2^31 as k 16-bit limbs
Limbs(n, k) ==
    [i \in 1..k |-> IF i = k THEN n % 65536
                    ELSE IF i = k - 1 THEN n \div 65536
                    ELSE 0]

\* `|` on two limb sequences of the same width
OrLimbs(a, b) == [i \in 1..Len(a) |-> BitOr(a[i], b[i])]

\* to_be_bytes of a limb sequence
ToBeBytes(limbs) ==
    [j \in 1..(2 * Len(limbs)) |->
        IF j % 2 = 1 THEN limbs[(j + 1) \div 2] \div 256
                     ELSE limbs[j \div 2] % 256]

\* `(len - k) as u32` with len, k: usize, wrapping when len < k
WrappingSubAsU32(len, k) ==
    IF len >= k THEN Limbs(len - k, 2)
    ELSE <<65535, 65536 - (k - len)>>

---------------------------------------------------------------------------
(* Field metadata: the FIELDS table the derive macros read *)

ACCOUNT_ID_TYPE_CODE == 8

Meta(t, f, vl, ser, sig) ==
    [type_code |-> t, field_code |-> f, is_vl_encoded |-> vl,
     is_serialized |-> ser, is_signing_field |-> sig]

FIELDS ==
    [ TransactionType  |-> Meta(1, 2, FALSE, TRUE, TRUE),
      SignerWeight     |-> Meta(1, 3, FALSE, TRUE, TRUE),
      Flags            |-> Meta(2, 2, FALSE, TRUE, TRUE),
      SourceTag        |-> Meta(2, 3, FALSE, TRUE, TRUE),
      Sequence         |-> Meta(2, 4, FALSE, TRUE, TRUE),
      DestinationTag   |-> Meta(2, 14, FALSE, TRUE, TRUE),
      SignerQuorum     |-> Meta(2, 35, FALSE, TRUE, TRUE),
      TicketSequence   |-> Meta(2, 41, FALSE, TRUE, TRUE),
      NFTokenID        |-> Meta(5, 10, FALSE, TRUE, TRUE),
      NFTokenSellOffer |-> Meta(5, 29, FALSE, TRUE, TRUE),
      Amount           |-> Meta(6, 1, FALSE, TRUE, TRUE),
      Fee              |-> Meta(6, 8, FALSE, TRUE, TRUE),
      SigningPubKey    |-> Meta(7, 3, TRUE, TRUE, TRUE),
      TxnSignature     |-> Meta(7, 4, TRUE, TRUE, FALSE),
      Account          |-> Meta(8, 1, TRUE, TRUE, TRUE),
      Destination      |-> Meta(8, 3, TRUE, TRUE, TRUE),
      SignerEntry      |-> Meta(14, 11, FALSE, TRUE, TRUE),
      SignerEntries    |-> Meta(15, 4, FALSE, TRUE, TRUE) ]

\* what #[derive(Field)] generates: the field's metadata and its inner value
CodecField(name, meta, inner) ==
    [name |-> name,
     type_code |-> meta.type_code,
     field_code |-> meta.field_code,
     is_variable_length |-> meta.is_vl_encoded,
     is_serialized |-> meta.is_serialized,
     is_signing_field |-> meta.is_signing_field,
     inner |-> inner]

Field(name, inner) == CodecField(name, FIELDS[name], inner)

---------------------------------------------------------------------------
(* Primitive values *)

UInt16Type(v) == [ty |-> "UInt16", v |-> v]
UInt32Type(v) == [ty |-> "UInt32", v |-> v]
UInt64Type(v) == [ty |-> "UInt64", v |-> v]
Hash160Type(v) == [ty |-> "Hash160", v |-> v]
Hash256Type(v) == [ty |-> "Hash256", v |-> v]
AccountIdType(v) == [ty |-> "AccountId", v |-> v]
BlobType(v) == [ty |-> "Blob", v |-> v]
Drops(v) == [ty |-> "Drops", v |-> v]
Issued(a) == [ty |-> "Issued", v |-> a]
SignerEntryType(account, weight) == [ty |-> "SignerEntry", v |-> <<account, weight>>]
STArrayType(items) == [ty |-> "STArray", v |-> items]

Standard(code) == [ty |-> "Standard", v |-> code]
NonStandard(code) == [ty |-> "NonStandard", v |-> code]

\* mantissa: sign and magnitude, the magnitude in four limbs
IssuedValue(negative, magnitude, exponent) ==
    [negative |-> negative, magnitude |-> magnitude, exponent |-> exponent]

IssuedAmount(value, currency, issuer) ==
    [value |-> value, currency |-> currency, issuer |-> issuer]

---------------------------------------------------------------------------
(* Field layer: header and length prefix *)

\* FieldHeader with the two bytes of the third form in the other order
FieldHeader_TypeCodeFirst(type_code, field_code) ==
    IF type_code < 16
    THEN IF field_code < 16
         THEN <<AsU8(BitOr(Shl16(type_code, 4), field_code))>>
         ELSE <<AsU8(Shl16(type_code, 4)), AsU8(field_code)>>
    ELSE IF type_code >= 16 /\ field_code < 16
         THEN <<AsU8(type_code), AsU8(field_code)>>
         ELSE <<0, AsU8(type_code), AsU8(field_code)>>

\* FieldHeader without the leading 0x00 of the fourth form
FieldHeader_NoZeroMarker(type_code, field_code) ==
    IF type_code < 16
    THEN IF field_code < 16
         THEN <<AsU8(BitOr(Shl16(type_code, 4), field_code))>>
         ELSE <<AsU8(Shl16(type_code, 4)), AsU8(field_code)>>
    ELSE IF type_code >= 16 /\ field_code < 16
         THEN <<AsU8(field_code), AsU8(type_code)>>
         ELSE <<AsU8(type_code), AsU8(field_code)>>

\* the field header, field.rs lines 87-103
FieldHeader(type_code, field_code) ==
    IF type_code < 16
    THEN IF field_code < 16
         THEN <<AsU8(BitOr(Shl16(type_code, 4), field_code))>>
         ELSE <<AsU8(Shl16(type_code, 4)), AsU8(field_code)>>
    ELSE IF type_code >= 16 /\ field_code < 16
         THEN <<AsU8(field_code), AsU8(type_code)>>
         ELSE <<0, AsU8(type_code), AsU8(field_code)>>

\* LengthPrefix with the first arm matching 0..=193
LengthPrefix_OneByteTo193(len, checks) ==
    IF len <= 193
    THEN [panic |-> FALSE, bytes |-> <<AsU8(len)>>]
    ELSE IF len <= 12480
    THEN LET be == ToBeBytes(<<AsU16(len - 193)>>)
         IN  [panic |-> checks /\ be[1] + 193 > 255,
              bytes |-> <<AsU8(be[1] + 193), AsU8(be[2])>>]
    ELSE IF len <= 918744
    THEN LET be == ToBeBytes(WrappingSubAsU32(len, 12841))
         IN  [panic |-> checks /\ (len < 12841 \/ 241 + be[1] > 255),
              bytes |-> <<AsU8(241 + be[1]), be[2], be[3]>>]
    ELSE [panic |-> TRUE, bytes |-> <<>>]

\* the length prefix of a payload of len bytes, field.rs lines 120-137.
\* With overflow checks (a debug build) an arithmetic overflow panics,
\* without them (a release build) it wraps.
LengthPrefix(len, checks) ==
    IF len <= 192
    THEN [panic |-> FALSE, bytes |-> <<AsU8(len)>>]
    ELSE IF len <= 12480
    THEN LET be == ToBeBytes(<<AsU16(len - 193)>>)
             length_a == be[1]
             length_b == be[2]
         IN  [panic |-> checks /\ length_a + 193 > 255,
              bytes |-> <<AsU8(length_a + 193), AsU8(length_b)>>]
    ELSE IF len <= 918744
    THEN LET be == ToBeBytes(WrappingSubAsU32(len, 12841))
             length_a == be[1]
             length_b == be[2]
             length_c == be[3]
         IN  [panic |-> checks /\ (len < 12841 \/ 241 + length_a > 255),
              bytes |-> <<AsU8(241 + length_a), length_b, length_c>>]
    ELSE [panic |-> TRUE, bytes |-> <<>>]

---------------------------------------------------------------------------
(* Primitive types: binary_serialize_to *)

ISSUED_MASK == <<32768, 0, 0, 0>>
POSITIVE_MASK == <<16384, 0, 0, 0>>

\* CurrencyCodeSerializeTo with the three bytes of a standard code put first
CurrencyCodeSerializeTo_PayloadFirst(b, c) ==
    IF c.ty = "NonStandard" THEN b \o c.v
    ELSE b \o c.v \o Rep(0, 17)

\* impl BinarySerialize for CurrencyCode
CurrencyCodeSerializeTo(b, c) ==
    IF c.ty = "NonStandard" THEN b \o c.v
    ELSE b \o Rep(0, 12) \o c.v \o Rep(0, 5)

\* `(self.exponent + 97) as u64`, reduced to the ten bits that `<< 54` keeps
BiasedExponentBits(exponent) ==
    LET sum == exponent + 97
        wrapped == IF sum > 127 THEN sum - 256 ELSE sum
    IN  wrapped % 1024

\* an overflow the build's overflow checks turn into a panic
IssuedValueOverflows(v) ==
    \/ v.magnitude # <<0, 0, 0, 0>> /\ v.exponent + 97 > 127
    \/ v.negative /\ v.magnitude = <<32768, 0, 0, 0>>

\* IssuedValueSerializeTo without the arm for a mantissa of 0
IssuedValueSerializeTo_NoZeroArm(b, v) ==
    LET positive == ~v.negative
        exponent == <<BiasedExponentBits(v.exponent) * 64, 0, 0, 0>>
        payload == OrLimbs(OrLimbs(OrLimbs(ISSUED_MASK,
                       IF positive THEN POSITIVE_MASK ELSE <<0, 0, 0, 0>>),
                       v.magnitude), exponent)
    IN  b \o ToBeBytes(payload)

\* impl BinarySerialize for IssuedValue
IssuedValueSerializeTo(b, v) ==
    IF v.magnitude = <<0, 0, 0, 0>> THEN b \o ToBeBytes(ISSUED_MASK)
    ELSE LET positive == ~v.negative
             exponent == <<BiasedExponentBits(v.exponent) * 64, 0, 0, 0>>
             payload == OrLimbs(OrLimbs(OrLimbs(ISSUED_MASK,
                            IF positive THEN POSITIVE_MASK ELSE <<0, 0, 0, 0>>),
                            v.magnitude), exponent)
         IN  b \o ToBeBytes(payload)

\* impl BinarySerialize for IssuedAmount
IssuedAmountSerializeTo(b, a) ==
    CurrencyCodeSerializeTo(IssuedValueSerializeTo(b, a.value), a.currency) \o a.issuer

RECURSIVE BinarySerializeTo(_, _, _)
RECURSIVE ItemsSerializeTo(_, _, _)
RECURSIVE ItemsSerializeTo_Reversed(_, _, _)
RECURSIVE InnerSerializeTo(_, _, _)

\* BinarySerializeTo without the for_signing early return
BinarySerializeTo_NoSigningCheck(b, f, for_signing) ==
    IF ~f.is_serialized THEN b
    ELSE LET header == b \o FieldHeader(f.type_code, f.field_code)
         IN  IF ~f.is_variable_length
             THEN InnerSerializeTo(header, f.inner, for_signing)
             ELSE LET data == InnerSerializeTo(<<>>, f.inner, for_signing)
                  IN  IF f.type_code = ACCOUNT_ID_TYPE_CODE
                      THEN header \o <<20>> \o data
                      ELSE header \o LengthPrefix(Len(data), overflow_checks).bytes \o data

\* BinarySerializeTo without the is_serialized early return
BinarySerializeTo_NoSerializedCheck(b, f, for_signing) ==
    IF for_signing /\ ~f.is_signing_field THEN b
    ELSE LET header == b \o FieldHeader(f.type_code, f.field_code)
         IN  IF ~f.is_variable_length
             THEN InnerSerializeTo(header, f.inner, for_signing)
             ELSE LET data == InnerSerializeTo(<<>>, f.inner, for_signing)
                  IN  IF f.type_code = ACCOUNT_ID_TYPE_CODE
                      THEN header \o <<20>> \o data
                      ELSE header \o LengthPrefix(Len(data), overflow_checks).bytes \o data

\* BinarySerializeTo computing the AccountID prefix from the payload length
BinarySerializeTo_ComputedAccountPrefix(b, f, for_signing) ==
    IF ~f.is_serialized THEN b
    ELSE IF for_signing /\ ~f.is_signing_field THEN b
    ELSE LET header == b \o FieldHeader(f.type_code, f.field_code)
         IN  IF ~f.is_variable_length
             THEN InnerSerializeTo(header, f.inner, for_signing)
             ELSE LET data == InnerSerializeTo(<<>>, f.inner, for_signing)
                  IN  header \o LengthPrefix(Len(data), overflow_checks).bytes \o data

\* BinarySerializeTo leaving out a variable-length field whose payload is empty
BinarySerializeTo_SkipEmpty(b, f, for_signing) ==
    IF ~f.is_serialized THEN b
    ELSE IF for_signing /\ ~f.is_signing_field THEN b
    ELSE LET header == b \o FieldHeader(f.type_code, f.field_code)
         IN  IF ~f.is_variable_length
             THEN InnerSerializeTo(header, f.inner, for_signing)
             ELSE LET data == InnerSerializeTo(<<>>, f.inner, for_signing)
                  IN  IF data = <<>> THEN b
                      ELSE IF f.type_code = ACCOUNT_ID_TYPE_CODE
                      THEN header \o <<20>> \o data
                      ELSE header \o LengthPrefix(Len(data), overflow_checks).bytes \o data

\* impl<T: CodecField> BinarySerialize for T: b is the buffer, f the field.
\* The result is the buffer after the call when the call does not panic.
BinarySerializeTo(b, f, for_signing) ==
    IF ~f.is_serialized THEN b
    ELSE IF for_signing /\ ~f.is_signing_field THEN b
    ELSE LET header == b \o FieldHeader(f.type_code, f.field_code)
         IN  IF ~f.is_variable_length
             THEN InnerSerializeTo(header, f.inner, for_signing)
             ELSE LET data == InnerSerializeTo(<<>>, f.inner, for_signing)
                  IN  IF f.type_code = ACCOUNT_ID_TYPE_CODE
                      THEN header \o <<20>> \o data
                      ELSE header \o LengthPrefix(Len(data), overflow_checks).bytes \o data

\* ItemsSerializeTo walking the items from the last to the first
ItemsSerializeTo_Reversed(b, items, for_signing) ==
    IF items = <<>> THEN b
    ELSE BinarySerializeTo(ItemsSerializeTo(b, Tail(items), for_signing),
                           Head(items), for_signing)

\* the loop of STArrayType::binary_serialize_to
ItemsSerializeTo(b, items, for_signing) ==
    IF items = <<>> THEN b
    ELSE ItemsSerializeTo(BinarySerializeTo(b, Head(items), for_signing),
                          Tail(items), for_signing)

\* InnerSerializeTo marking drops with the issued mask instead of the positive mask
InnerSerializeTo_DropsIssuedMask(b, x, for_signing) ==
    CASE x.ty = "UInt16" -> b \o ToBeBytes(<<x.v>>)
      [] x.ty = "UInt32" -> b \o ToBeBytes(x.v)
      [] x.ty = "UInt64" -> b \o ToBeBytes(x.v)
      [] x.ty = "Hash160" -> b \o x.v
      [] x.ty = "Hash256" -> b \o x.v
      [] x.ty = "AccountId" -> b \o x.v
      [] x.ty = "Blob" -> b \o x.v
      [] x.ty = "Drops" -> b \o ToBeBytes(OrLimbs(x.v, ISSUED_MASK))
      [] x.ty = "Issued" -> IssuedAmountSerializeTo(b, x.v)
      [] x.ty \in {"Standard", "NonStandard"} -> CurrencyCodeSerializeTo(b, x)
      [] x.ty = "SignerEntry" ->
            BinarySerializeTo(BinarySerializeTo(b, x.v[2], for_signing),
                              x.v[1], for_signing) \o <<225>>
      [] x.ty = "STArray" -> ItemsSerializeTo(b, x.v, for_signing) \o <<241>>

\* InnerSerializeTo with a signer entry's members in declaration order
InnerSerializeTo_AccountFirst(b, x, for_signing) ==
    CASE x.ty = "UInt16" -> b \o ToBeBytes(<<x.v>>)
      [] x.ty = "UInt32" -> b \o ToBeBytes(x.v)
      [] x.ty = "UInt64" -> b \o ToBeBytes(x.v)
      [] x.ty = "Hash160" -> b \o x.v
      [] x.ty = "Hash256" -> b \o x.v
      [] x.ty = "AccountId" -> b \o x.v
      [] x.ty = "Blob" -> b \o x.v
      [] x.ty = "Drops" -> b \o ToBeBytes(OrLimbs(x.v, POSITIVE_MASK))
      [] x.ty = "Issued" -> IssuedAmountSerializeTo(b, x.v)
      [] x.ty \in {"Standard", "NonStandard"} -> CurrencyCodeSerializeTo(b, x)
      [] x.ty = "SignerEntry" ->
            BinarySerializeTo(BinarySerializeTo(b, x.v[1], for_signing),
                              x.v[2], for_signing) \o <<225>>
      [] x.ty = "STArray" -> ItemsSerializeTo(b, x.v, for_signing) \o <<241>>

\* InnerSerializeTo with a blob carrying its own length byte
InnerSerializeTo_BlobLength(b, x, for_signing) ==
    CASE x.ty = "UInt16" -> b \o ToBeBytes(<<x.v>>)
      [] x.ty = "UInt32" -> b \o ToBeBytes(x.v)
      [] x.ty = "UInt64" -> b \o ToBeBytes(x.v)
      [] x.ty = "Hash160" -> b \o x.v
      [] x.ty = "Hash256" -> b \o x.v
      [] x.ty = "AccountId" -> b \o x.v
      [] x.ty = "Blob" -> b \o <<Len(x.v)>> \o x.v
      [] x.ty = "Drops" -> b \o ToBeBytes(OrLimbs(x.v, POSITIVE_MASK))
      [] x.ty = "Issued" -> IssuedAmountSerializeTo(b, x.v)
      [] x.ty \in {"Standard", "NonStandard"} -> CurrencyCodeSerializeTo(b, x)
      [] x.ty = "SignerEntry" ->
            BinarySerializeTo(BinarySerializeTo(b, x.v[2], for_signing),
                              x.v[1], for_signing) \o <<225>>
      [] x.ty = "STArray" -> ItemsSerializeTo(b, x.v, for_signing) \o <<241>>

\* binary_serialize_to of the value a field wraps
InnerSerializeTo(b, x, for_signing) ==
    CASE x.ty = "UInt16" -> b \o ToBeBytes(<<x.v>>)
      [] x.ty = "UInt32" -> b \o ToBeBytes(x.v)
      [] x.ty = "UInt64" -> b \o ToBeBytes(x.v)
      [] x.ty = "Hash160" -> b \o x.v
      [] x.ty = "Hash256" -> b \o x.v
      [] x.ty = "AccountId" -> b \o x.v
      [] x.ty = "Blob" -> b \o x.v
      [] x.ty = "Drops" -> b \o ToBeBytes(OrLimbs(x.v, POSITIVE_MASK))
      [] x.ty = "Issued" -> IssuedAmountSerializeTo(b, x.v)
      [] x.ty \in {"Standard", "NonStandard"} -> CurrencyCodeSerializeTo(b, x)
      [] x.ty = "SignerEntry" ->
            BinarySerializeTo(BinarySerializeTo(b, x.v[2], for_signing),
                              x.v[1], for_signing) \o <<225>>
      [] x.ty = "STArray" -> ItemsSerializeTo(b, x.v, for_signing) \o <<241>>

\* binary_serialize_to of the wrapped value panics: `self.exponent + 97`
\* of IssuedValue overflows an i8 in a build with overflow checks
InnerPanics(x) ==
    /\ x.ty = "Issued"
    /\ overflow_checks
    /\ IssuedValueOverflows(x.v.value)

\* a field's call panics: its value cannot be serialized or its length prefix
\* cannot be computed.  Nested fields (SignerWeight, Account) have neither.
FieldPanics(f, for_signing) ==
    /\ f.is_serialized
    /\ ~(for_signing /\ ~f.is_signing_field)
    /\ \/ InnerPanics(f.inner)
       \/ /\ f.is_variable_length
          /\ f.type_code # ACCOUNT_ID_TYPE_CODE
          /\ LengthPrefix(Len(InnerSerializeTo(<<>>, f.inner, for_signing)), overflow_checks).panic

---------------------------------------------------------------------------
(* IssuedValue and IssuedAmount constructors *)

\* `Ok(v)`, `Err(e)` and a call not made yet; v of the same shape in all three
Ok(v) == [tag |-> "Ok", v |-> v, err |-> ""]
Err(e, placeholder) == [tag |-> "Err", v |-> placeholder, err |-> e]
NotCalled(placeholder) == [tag |-> "none", v |-> placeholder, err |-> ""]

Zero64 == <<0, 0, 0, 0>>
\* 0x8000_0000_0000_0000, the magnitude of i64::MIN
I64MinMagnitude == <<32768, 0, 0, 0>>

\* 1000000000000000 = 0x0003_8D7E_A4C6_8000
MANTISSA_MIN == <<3, 36222, 42182, 32768>>
\* 9999999999999999 = 0x0023_86F2_6FC0_FFFF
MANTISSA_MAX == <<35, 34546, 28608, 65535>>
EXPONENT_MIN == -96
EXPONENT_MAX == 80

\* `a < b` on two limb sequences of the same width
LtLimbs(a, b) ==
    \E i \in 1..Len(a) : a[i] < b[i] /\ \A j \in 1..(i - 1) : a[j] = b[j]

\* `mantissa *= 10` on 64 bits
Mul10(a) ==
    LET p4 == a[4] * 10
        p3 == a[3] * 10 + p4 \div 65536
        p2 == a[2] * 10 + p3 \div 65536
        p1 == a[1] * 10 + p2 \div 65536
    IN  <<p1 % 65536, p2 % 65536, p3 % 65536, p4 % 65536>>

\* Div10 rounding to the nearest integer instead of toward zero
Div10_RoundHalfUp(a) ==
    LET s4 == a[4] + 5
        s3 == a[3] + s4 \div 65536
        s2 == a[2] + s3 \div 65536
        s1 == a[1] + s2 \div 65536
        t1 == s1 % 65536
        t2 == (t1 % 10) * 65536 + (s2 % 65536)
        t3 == (t2 % 10) * 65536 + (s3 % 65536)
        t4 == (t3 % 10) * 65536 + (s4 % 65536)
    IN  <<t1 \div 10, t2 \div 10, t3 \div 10, t4 \div 10>>

\* `mantissa /= 10` on 64 bits
Div10(a) ==
    LET t1 == a[1]
        t2 == (t1 % 10) * 65536 + a[2]
        t3 == (t2 % 10) * 65536 + a[3]
        t4 == (t3 % 10) * 65536 + a[4]
    IN  <<t1 \div 10, t2 \div 10, t3 \div 10, t4 \div 10>>

\* IssuedValue::zero
zero == IssuedValue(FALSE, Zero64, 0)

\* `while mantissa < MANTISSA_MIN && exponent > EXPONENT_MIN`; n counts the iterations
RECURSIVE ScaleUp(_, _, _)
ScaleUp(mantissa, exponent, n) ==
    IF LtLimbs(mantissa, MANTISSA_MIN) /\ exponent > EXPONENT_MIN
    THEN ScaleUp(Mul10(mantissa), exponent - 1, n + 1)
    ELSE <<mantissa, exponent, n>>

\* `while mantissa > MANTISSA_MAX && exponent < EXPONENT_MAX`
RECURSIVE ScaleDown(_, _, _)
ScaleDown(mantissa, exponent, n) ==
    IF LtLimbs(MANTISSA_MAX, mantissa) /\ exponent < EXPONENT_MAX
    THEN ScaleDown(Div10(mantissa), exponent + 1, n + 1)
    ELSE <<mantissa, exponent, n>>

\* the two loops of normalize, one after the other
Scale(magnitude, exponent) ==
    LET up == ScaleUp(magnitude, exponent, 0)
    IN  ScaleDown(up[1], up[2], up[3])

\* normalize without the underflow test: the scaled value is returned as it is
normalize_NoUnderflowCheck(self) ==
    IF self.magnitude = Zero64 THEN Ok(zero)
    ELSE IF self.negative /\ self.magnitude = I64MinMagnitude
    THEN Err("OutOfRange", zero)
    ELSE LET scaled == Scale(self.magnitude, self.exponent)
             mantissa == scaled[1]
             exponent == scaled[2]
         IN  IF LtLimbs(MANTISSA_MAX, mantissa) \/ exponent > EXPONENT_MAX
             THEN Err("OutOfRange", zero)
             ELSE Ok(IssuedValue(self.negative, mantissa, exponent))

\* normalize clamping a value that is too big to the largest exponent
normalize_ClampExponent(self) ==
    IF self.magnitude = Zero64 THEN Ok(zero)
    ELSE IF self.negative /\ self.magnitude = I64MinMagnitude
    THEN Err("OutOfRange", zero)
    ELSE LET scaled == Scale(self.magnitude, self.exponent)
             mantissa == scaled[1]
             exponent == scaled[2]
         IN  IF LtLimbs(MANTISSA_MAX, mantissa) \/ exponent > EXPONENT_MAX
             THEN Ok(IssuedValue(self.negative, IF LtLimbs(MANTISSA_MAX, mantissa) THEN MANTISSA_MAX ELSE mantissa, EXPONENT_MAX))
             ELSE IF LtLimbs(mantissa, MANTISSA_MIN) \/ exponent < EXPONENT_MIN
             THEN Ok(zero)
             ELSE Ok(IssuedValue(self.negative, mantissa, exponent))

\* normalize taking the magnitude of i64::MIN instead of failing on it
normalize_UnsignedAbs(self) ==
    IF self.magnitude = Zero64 THEN Ok(zero)
    ELSE LET scaled == Scale(self.magnitude, self.exponent)
             mantissa == scaled[1]
             exponent == scaled[2]
         IN  IF LtLimbs(MANTISSA_MAX, mantissa) \/ exponent > EXPONENT_MAX
             THEN Err("OutOfRange", zero)
             ELSE IF LtLimbs(mantissa, MANTISSA_MIN) \/ exponent < EXPONENT_MIN
             THEN Ok(zero)
             ELSE Ok(IssuedValue(self.negative, mantissa, exponent))

\* normalize reporting an underflow as an error
normalize_UnderflowIsError(self) ==
    IF self.magnitude = Zero64 THEN Ok(zero)
    ELSE IF self.negative /\ self.magnitude = I64MinMagnitude
    THEN Err("OutOfRange", zero)
    ELSE LET scaled == Scale(self.magnitude, self.exponent)
             mantissa == scaled[1]
             exponent == scaled[2]
         IN  IF LtLimbs(MANTISSA_MAX, mantissa) \/ exponent > EXPONENT_MAX
             THEN Err("OutOfRange", zero)
             ELSE IF LtLimbs(mantissa, MANTISSA_MIN) \/ exponent < EXPONENT_MIN
             THEN Err("OutOfRange", zero)
             ELSE Ok(IssuedValue(self.negative, mantissa, exponent))

\* normalize negating the result of a positive mantissa instead of a negative one
normalize_InvertedSign(self) ==
    IF self.magnitude = Zero64 THEN Ok(zero)
    ELSE IF self.negative /\ self.magnitude = I64MinMagnitude
    THEN Err("OutOfRange", zero)
    ELSE LET scaled == Scale(self.magnitude, self.exponent)
             mantissa == scaled[1]
             exponent == scaled[2]
         IN  IF LtLimbs(MANTISSA_MAX, mantissa) \/ exponent > EXPONENT_MAX
             THEN Err("OutOfRange", zero)
             ELSE IF LtLimbs(mantissa, MANTISSA_MIN) \/ exponent < EXPONENT_MIN
             THEN Ok(zero)
             ELSE Ok(IssuedValue(~self.negative, mantissa, exponent))

\* IssuedValue::normalize; self.mantissa is (self.negative, self.magnitude)
normalize(self) ==
    IF self.magnitude = Zero64 THEN Ok(zero)
    ELSE IF self.negative /\ self.magnitude = I64MinMagnitude
    THEN Err("OutOfRange", zero)
    ELSE LET scaled == Scale(self.magnitude, self.exponent)
             mantissa == scaled[1]
             exponent == scaled[2]
         IN  IF LtLimbs(MANTISSA_MAX, mantissa) \/ exponent > EXPONENT_MAX
             THEN Err("OutOfRange", zero)
             ELSE IF LtLimbs(mantissa, MANTISSA_MIN) \/ exponent < EXPONENT_MIN
             THEN Ok(zero)
             ELSE Ok(IssuedValue(self.negative, mantissa, exponent))

\* the number of loop iterations a call of normalize runs before it returns
normalize_iterations(self) ==
    IF self.magnitude = Zero64 THEN 0
    ELSE IF self.negative /\ self.magnitude = I64MinMagnitude THEN 0
    ELSE Scale(self.magnitude, self.exponent)[3]

\* IssuedValue::from_mantissa_exponent
from_mantissa_exponent(negative, magnitude, exponent) ==
    normalize(IssuedValue(negative, magnitude, exponent))

\* CurrencyCode::is_valid; b"XRP" is 88, 82, 80
is_valid(c) ==
    IF c.ty = "Standard" THEN c.v # <<88, 82, 80>>
    ELSE c.v[1] # 0

NoAmount == IssuedAmount(zero, Standard(<<0, 0, 0>>), Rep(0, 20))

\* IssuedAmount::from_issued_value
from_issued_value(value, currency, issuer) ==
    IF is_valid(currency) THEN Err("InvalidData", NoAmount)
    ELSE Ok(IssuedAmount(value, currency, issuer))

---------------------------------------------------------------------------
(* Transactions *)

None == [some |-> FALSE, v |-> <<>>]
Some(v) == [some |-> TRUE, v |-> v]

\* TransactionTypeCode::code
TransactionTypeCode ==
    [Payment |-> 0, SignerListSet |-> 12, NFTokenCreateOffer |-> 27]

\* signing_pub_key.map(|pk| SigningPubKey(BlobType(pk.to_vec()))).unwrap_or_default()
SigningPubKeyField(signing_pub_key) ==
    IF signing_pub_key.some
    THEN Field("SigningPubKey", BlobType(signing_pub_key.v))
    ELSE Field("SigningPubKey", BlobType(<<>>))

\* the members all five transaction structs are built with
CommonMembers(kind, code, account, fee, nonce, ticket_sequence, flags, source_tag, signing_pub_key) ==
    [kind |-> kind,
     account |-> Field("Account", AccountIdType(account)),
     transaction_type |-> Field("TransactionType", UInt16Type(code)),
     fee |-> Field("Fee", Drops(Limbs(fee, 4))),
     sequence |-> Field("Sequence", UInt32Type(Limbs(nonce, 2))),
     ticket_sequence |-> Field("TicketSequence", UInt32Type(Limbs(ticket_sequence, 2))),
     flags |-> Field("Flags", UInt32Type(flags)),
     source_tag |-> Field("SourceTag", UInt32Type(Limbs(source_tag, 2))),
     signing_pub_key |-> SigningPubKeyField(signing_pub_key),
     txn_signature |-> Field("TxnSignature", BlobType(<<>>))]

\* Payment::new
PaymentNew(account, destination, amount, nonce, ticket_sequence, fee, source_tag, signing_pub_key) ==
    CommonMembers("Payment", TransactionTypeCode.Payment, account, fee, nonce,
                  ticket_sequence, <<32768, 0>>, source_tag, signing_pub_key)
    @@ [amount |-> Field("Amount", Drops(Limbs(amount, 4))),
        destination |-> Field("Destination", AccountIdType(destination))]

\* PaymentWithDestinationTag::new
PaymentWithDestinationTagNew(account, destination, amount, nonce, ticket_sequence, fee, source_tag, destination_tag, signing_pub_key) ==
    CommonMembers("PaymentWithDestinationTag", TransactionTypeCode.Payment, account,
                  fee, nonce, ticket_sequence, <<32768, 0>>, source_tag, signing_pub_key)
    @@ [amount |-> Field("Amount", Drops(Limbs(amount, 4))),
        destination |-> Field("Destination", AccountIdType(destination)),
        destination_tag |-> Field("DestinationTag", UInt32Type(Limbs(destination_tag, 2)))]

\* PaymentAltCurrency::new: amount is an Amount field the caller built
PaymentAltCurrencyNew(account, destination, amount, nonce, ticket_sequence, fee, source_tag, signing_pub_key) ==
    CommonMembers("PaymentAltCurrency", TransactionTypeCode.Payment, account, fee,
                  nonce, ticket_sequence, <<32768, 0>>, source_tag, signing_pub_key)
    @@ [amount |-> amount,
        destination |-> Field("Destination", AccountIdType(destination))]

\* SignerListSet::new: signer_entries is a sequence of <<account, weight>>
SignerListSetNew(account, fee, nonce, ticket_sequence, signer_quorum, signer_entries, source_tag, signing_pub_key) ==
    CommonMembers("SignerListSet", TransactionTypeCode.SignerListSet, account, fee,
                  nonce, ticket_sequence, <<32768, 0>>, source_tag, signing_pub_key)
    @@ [signer_quorum |-> Field("SignerQuorum", UInt32Type(Limbs(signer_quorum, 2))),
        signer_entries |-> Field("SignerEntries", STArrayType(
            [i \in 1..Len(signer_entries) |->
                Field("SignerEntry", SignerEntryType(
                    Field("Account", AccountIdType(signer_entries[i][1])),
                    Field("SignerWeight", UInt16Type(signer_entries[i][2]))))]))]

\* NFTokenCreateOffer::new
NFTokenCreateOfferNew(account, destination, nftoken_id, amount, sequence, ticket_sequence, fee, source_tag, signing_pub_key) ==
    CommonMembers("NFTokenCreateOffer", TransactionTypeCode.NFTokenCreateOffer, account,
                  fee, sequence, ticket_sequence, <<0, 1>>, source_tag, signing_pub_key)
    @@ [amount |-> Field("Amount", Drops(Limbs(amount, 4))),
        destination |-> Field("Destination", AccountIdType(destination)),
        nftoken_id |-> Field("NFTokenID", Hash256Type(nftoken_id))]

\* the named members of each struct, in the order the struct declares them
Members ==
    [Payment |->
        <<"account", "transaction_type", "fee", "sequence", "ticket_sequence",
          "flags", "amount", "destination", "signing_pub_key", "txn_signature",
          "source_tag">>,
     PaymentWithDestinationTag |->
        <<"account", "transaction_type", "fee", "sequence", "ticket_sequence",
          "flags", "amount", "destination", "signing_pub_key", "txn_signature",
          "source_tag", "destination_tag">>,
     PaymentAltCurrency |->
        <<"account", "transaction_type", "fee", "sequence", "ticket_sequence",
          "flags", "amount", "destination", "signing_pub_key", "txn_signature",
          "source_tag">>,
     SignerListSet |->
        <<"account", "transaction_type", "fee", "sequence", "ticket_sequence",
          "flags", "signer_quorum", "signer_entries", "signing_pub_key",
          "txn_signature", "source_tag">>,
     NFTokenCreateOffer |->
        <<"account", "transaction_type", "fee", "sequence", "ticket_sequence",
          "flags", "source_tag", "amount", "destination", "nftoken_id",
          "signing_pub_key", "txn_signature">>]

\* `[#fields]`: a reference to every member, in declaration order
DeclaredFields(t) == [i \in 1..Len(Members[t.kind]) |-> t[Members[t.kind][i]]]

\* Ord::cmp
Cmp(x, y) == IF x < y THEN "Less" ELSE IF x = y THEN "Equal" ELSE "Greater"

\* CanonicalCompare without the tie-break
CanonicalCompare_FieldCodeOnly(a, b) == Cmp(a.field_code, b.field_code)

\* the closure to_canonical_fields passes to sort_by
CanonicalCompare(a, b) ==
    LET field_order == Cmp(a.field_code, b.field_code)
    IN  IF field_order = "Equal"
        THEN Cmp(a.type_code, b.type_code)
        ELSE field_order

\* sort_by is a stable sort: x goes in front of the first element it is Less than
RECURSIVE InsertSorted(_, _)
InsertSorted(s, x) ==
    IF s = <<>> THEN <<x>>
    ELSE IF CanonicalCompare(x, Head(s)) = "Less" THEN <<x>> \o s
    ELSE <<Head(s)>> \o InsertSorted(Tail(s), x)

RECURSIVE SortBy(_)
SortBy(s) ==
    IF s = <<>> THEN <<>>
    ELSE InsertSorted(SortBy(SubSeq(s, 1, Len(s) - 1)), s[Len(s)])

\* CodecToFields::to_canonical_fields
to_canonical_fields(t) == SortBy(DeclaredFields(t))

\* the derived BinarySerialize::binary_serialize_to of a transaction
TxSerializeTo(b, t, for_signing) ==
    ItemsSerializeTo(b, to_canonical_fields(t), for_signing)

\* BinarySerialize::binary_serialize
binary_serialize(t, for_signing) == TxSerializeTo(<<>>, t, for_signing)

\* attach_signature assigning the signing_pub_key member as well
attach_signature_AlsoPubKey(t, signature) ==
    [t EXCEPT !.txn_signature = Field("TxnSignature", BlobType(signature)),
              !.signing_pub_key = Field("SigningPubKey", BlobType(signature))]

\* attach_signature
attach_signature(t, signature) ==
    [t EXCEPT !.txn_signature = Field("TxnSignature", BlobType(signature))]

---------------------------------------------------------------------------
(* Multi-signing: utils.rs *)

\* The hash functions are those of the sha2 and ripemd crates.  The model
\* keeps what the codec relies on: each is a function of the whole byte
\* string, of every byte and of its position, with a digest of fixed length.

\* the sum of data[lo..hi], each byte weighted by its position when weighted
RECURSIVE SumOver(_, _, _, _)
SumOver(data, lo, hi, weighted) ==
    IF lo > hi THEN 0
    ELSE IF lo = hi THEN (IF weighted THEN lo * data[lo] ELSE data[lo])
    ELSE LET mid == (lo + hi) \div 2
         IN  SumOver(data, lo, mid, weighted) + SumOver(data, mid + 1, hi, weighted)

\* a digest of n bytes of data, different for each hash function
Digest(data, n, function) ==
    LET plain == SumOver(data, 1, Len(data), FALSE)
        positional == SumOver(data, 1, Len(data), TRUE)
    IN  [i \in 1..n |-> (plain * i + positional + function * i * i + Len(data)) % 256]

\* Sha256::digest
Sha256Digest(data) == Digest(data, 32, 1)

\* Ripemd160::digest
Ripemd160Digest(data) == Digest(data, 20, 2)

\* sha2::Sha512::digest
Sha512Digest(data) == Digest(data, 64, 3)

\* secp256k1_public_key_to_account_id
secp256k1_public_key_to_account_id(public_key) ==
    LET pubkey_inner_hash == Sha256Digest(public_key)
    IN  Ripemd160Digest(pubkey_inner_hash)

\* encode_for_multi_signing serializing the final form of the transaction
encode_for_multi_signing_FinalForm(t, public_key) ==
    <<83, 77, 84, 0>> \o binary_serialize(t, FALSE)
        \o secp256k1_public_key_to_account_id(public_key)

\* encode_for_multi_signing
encode_for_multi_signing(t, public_key) ==
    <<83, 77, 84, 0>> \o binary_serialize(t, TRUE)
        \o secp256k1_public_key_to_account_id(public_key)

\* digest_for_multi_signing
digest_for_multi_signing(t, public_key) ==
    LET tx_data == encode_for_multi_signing(t, public_key)
        digest == Sha512Digest(tx_data)
    IN  SubSeq(digest, 1, 32)

\* digest_for_multi_signing_pre returning the second half of the hash
digest_for_multi_signing_pre_SecondHalf(tx_data, public_key) ==
    LET preimage == <<83, 77, 84, 0>> \o tx_data
                        \o secp256k1_public_key_to_account_id(public_key)
        digest == Sha512Digest(preimage)
    IN  SubSeq(digest, 33, 64)

\* digest_for_multi_signing_pre
digest_for_multi_signing_pre(tx_data, public_key) ==
    LET preimage == <<83, 77, 84, 0>> \o tx_data
                        \o secp256k1_public_key_to_account_id(public_key)
        digest == Sha512Digest(preimage)
    IN  SubSeq(digest, 1, 32)

---------------------------------------------------------------------------
(* Inputs *)

Account1 == Rep(1, 20)
Account2 == Rep(2, 20)
PubKey1 == Rep(1, 33)
Signatures == {Rep(7, 65), Rep(9, 65)}

\* 5 * 10^15 * 10^-15 in the currency "ASA", issued by the account of twenty 0x03
IssuedFive ==
    IssuedAmount(IssuedValue(FALSE, <<17, 50041, 14304, 32768>>, -15),
                 Standard(<<65, 83, 65>>), Rep(3, 20))

\* the Amount field a caller hands to PaymentAltCurrency::new
AmountInput(issued) ==
    IF issued THEN Field("Amount", Issued(IssuedFive))
    ELSE Field("Amount", Drops(Limbs(5000000, 4)))

SignerEntriesInputs ==
    {<<>>, <<<<Account1, 1>>, <<Account2, 2>>>>, <<<<Account2, 2>>, <<Account1, 1>>>>}

PubKeyInputs == {None, Some(PubKey1)}

\* the keys of the signers a transaction is encoded for
PublicKeys == {PubKey1, [i \in 1..33 |-> IF i = 1 THEN 2 ELSE i]}

\* t is a transaction one of the five new() constructors returns
IsNewTransaction(t) ==
    \/ \E amount \in {0, 5000000}, nonce \in {0, 1}, pk \in PubKeyInputs :
        t = PaymentNew(Account1, Account2, amount, nonce, 1, 1000, 38887387, pk)
    \/ \E amount \in {0, 5000000}, tag \in {0, 12112289}, pk \in PubKeyInputs :
        t = PaymentWithDestinationTagNew(Account1, Account2, amount, 1, 1, 1000,
                                         38887387, tag, pk)
    \/ \E issued \in BOOLEAN, nonce \in {0, 1}, pk \in PubKeyInputs :
        t = PaymentAltCurrencyNew(Account1, Account2, AmountInput(issued), nonce, 1,
                                  1000, 38887387, pk)
    \/ \E entries \in SignerEntriesInputs, pk \in PubKeyInputs :
        t = SignerListSetNew(Account1, 1000, 1, 1, 3, entries, 38887387, pk)
    \/ \E amount \in {0, 5000000}, pk \in PubKeyInputs :
        t = NFTokenCreateOfferNew(Account1, Account2, Rep(3, 32), amount, 0, 1, 1000,
                                  38887387, pk)

\* `+ d` on 64 bits, d a decimal digit
AddDigit(a, d) ==
    LET s4 == a[4] + d
        s3 == a[3] + s4 \div 65536
        s2 == a[2] + s3 \div 65536
        s1 == a[1] + s2 \div 65536
    IN  <<s1 % 65536, s2 % 65536, s3 % 65536, s4 % 65536>>

\* the integer a decimal literal denotes, its digits most significant first
RECURSIVE FromDigits(_, _)
FromDigits(ds, acc) ==
    IF ds = <<>> THEN acc
    ELSE LET next == AddDigit(Mul10(acc), Head(ds))
         IN  IF Len(next) = 4 THEN FromDigits(Tail(ds), next) ELSE next

OneAndZeros(n) == <<1>> \o Rep(0, n)
I64MaxDigits == <<9, 2, 2, 3, 3, 7, 2, 0, 3, 6, 8, 5, 4, 7, 7, 5, 8, 0, 7>>
I64MinDigits == <<9, 2, 2, 3, 3, 7, 2, 0, 3, 6, 8, 5, 4, 7, 7, 5, 8, 0, 8>>

\* mantissas handed to from_mantissa_exponent, as sign and decimal digits
PositiveDigits ==
    {<<1>>, <<5>>, <<9>>, <<1, 0>>, <<4, 2>>, <<1, 2, 3, 4, 5, 6, 7, 8, 9>>,
     OneAndZeros(14), Rep(9, 15),
     OneAndZeros(15), OneAndZeros(14) \o <<1>>, Rep(9, 16),
     <<1, 2, 3, 4, 5, 6, 7, 8, 9, 0, 1, 2, 3, 4, 5, 6>>,
     OneAndZeros(16), OneAndZeros(15) \o <<9>>, Rep(9, 17),
     OneAndZeros(17), OneAndZeros(18), I64MaxDigits}

IsMantissa(negative, digits) ==
    \/ ~negative /\ digits \in PositiveDigits \cup {<<0>>}
    \/ negative /\ digits \in PositiveDigits \cup {I64MinDigits}

\* every i8
Exponents == -128..127

NoCurrency == [ty |-> "none", v |-> <<>>]
ASA == Standard(<<65, 83, 65>>)
XRP == Standard(<<88, 82, 80>>)
Currencies ==
    {ASA, XRP, NonStandard(Rep(5, 20)), NonStandard(Rep(0, 20)),
     NonStandard(<<0>> \o Rep(5, 19)), NonStandard(<<5>> \o Rep(0, 19))}
Issuer3 == Rep(3, 20)

\* values handed on to from_issued_value and to Amount
AmountDigits == {<<0>>, <<5>>, <<1, 2, 3, 4, 5, 6, 7, 8, 9, 0, 1, 2, 3, 4, 5, 6>>}
AmountExponents == {-81, -15, 0, 15, 16, 80}

Args(negative, digits, exponent, currency) ==
    [negative |-> negative, digits |-> digits, exponent |-> exponent, currency |-> currency]
NoArgs == Args(FALSE, <<>>, 0, NoCurrency)

\* drops handed to AmountType::Drops: 0, 10, 5000000, 2^32, 2^62 - 1, 2^62, 2^63, 2^64 - 1
DropsInputs ==
    {Zero64, Limbs(10, 4), Limbs(5000000, 4), <<0, 1, 0, 0>>, <<1, 2, 3, 4>>,
     <<16383, 65535, 65535, 65535>>, <<16384, 0, 0, 0>>, <<32768, 0, 0, 0>>,
     <<49152, 0, 0, 1>>, <<65535, 65535, 65535, 65535>>}

\* the largest type code and field code a one-byte header slot holds
MaxCode == 255

\* metadata of the stand-alone fields
FieldTypeCodes == {7, ACCOUNT_ID_TYPE_CODE, 16}
FieldFieldCodes == {1, 16}
BlobLens == (0..MaxBlobLen) \cup {20, 192, 193, 12480}
PriorBuffers == {<<>>, <<1, 2>>}

\* a SignerEntry field of an account and a weight
SignerEntryField(entry) ==
    Field("SignerEntry", SignerEntryType(Field("Account", AccountIdType(entry[1])),
                                         Field("SignerWeight", UInt16Type(entry[2]))))

\* signer entries as <<account, weight>>; the last is full of 0xF1 bytes
Entry1 == <<Account1, 1>>
Entry2 == <<Account2, 2>>
Entry3 == <<Rep(241, 20), 61937>>
EntryInputs == {Entry1, Entry2, Entry3, <<Rep(0, 20), 0>>, <<Rep(255, 20), 65535>>, <<Account1, 256>>}
EntryLists ==
    {<<>>, <<Entry1>>, <<Entry1, Entry2>>, <<Entry2, Entry1>>, <<Entry1, Entry1>>,
     <<Entry3, Entry2, Entry1>>}

\* the elements of an STArrayType built from a list of entries
SignerEntryFields(entries) == [i \in 1..Len(entries) |-> SignerEntryField(entries[i])]

\* currency codes, two of them 20-byte codes that start like a standard code's image
CurrencyInputs ==
    Currencies \cup {NonStandard(Rep(0, 12) \o <<65, 83, 65>> \o Rep(0, 5)),
                     NonStandard(<<65, 83, 65>> \o Rep(0, 17))}

NoPrimitive == [ty |-> "none", v |-> <<>>]
Counting(n) == [i \in 1..n |-> i]

\* p is a value of one of the types of types.rs
IsPrimitiveInput(p) ==
    \/ \E v \in {0, 1, 258, 65535} : p = UInt16Type(v)
    \/ \E v \in {<<0, 0>>, <<1, 2>>, <<593, 24539>>, <<65535, 65535>>} : p = UInt32Type(v)
    \/ \E v \in {Zero64, <<1, 2, 3, 4>>, <<65535, 65535, 65535, 65535>>} : p = UInt64Type(v)
    \/ \E v \in {Rep(0, 20), Counting(20)} : p = Hash160Type(v)
    \/ \E v \in {Rep(0, 32), Counting(32)} : p = Hash256Type(v)
    \/ \E v \in {Account1, Counting(20)} : p = AccountIdType(v)
    \/ \E n \in (0..MaxBlobLen) \cup {33, 193} : p = BlobType(Counting(n))
    \/ \E c \in CurrencyInputs : p = c
    \/ \E entry \in EntryInputs : p = SignerEntryField(entry).inner
    \/ \E entries \in EntryLists : p = STArrayType(SignerEntryFields(entries))

StandaloneField(t, f, vl, ser, sig, n) ==
    CodecField("Generic", Meta(t, f, vl, ser, sig), BlobType(Rep(171, n)))

\* payload lengths: all up to MaxDenseLen, then every Stride-th, and the last valid one
Stride == 4099
MaxVLLen == 918744
VLLengths ==
    (0..MaxDenseLen) \cup {MaxDenseLen + k * Stride : k \in 1..MaxSamples}
    \cup {MaxVLLen, MaxVLLen + 1}

---------------------------------------------------------------------------
(* State machine *)

NoTx == [kind |-> "none"]
NoField == [name |-> "none"]
NoPrefix == [panic |-> FALSE, bytes |-> <<>>]
Call(name, for_signing, arg) == [name |-> name, for_signing |-> for_signing, arg |-> arg]
NoCall == Call("new", FALSE, <<>>)

\* a transaction built by one of the new() constructors
InitTx ==
    /\ IsNewTransaction(tx)
    /\ field = NoField
    /\ buf = <<>>
    /\ op = NoCall
    /\ data_len = 0
    /\ prefix = NoPrefix
    /\ overflow_checks \in BOOLEAN
    /\ args = NoArgs
    /\ issued_value = NotCalled(zero)
    /\ issued_amount = NotCalled(NoAmount)
    /\ primitive = NoPrimitive

\* a stand-alone field and the buffer the caller hands to binary_serialize_to
InitField ==
    /\ tx = NoTx
    /\ \E t \in FieldTypeCodes, f \in FieldFieldCodes, vl \in BOOLEAN,
          ser \in BOOLEAN, sig \in BOOLEAN, n \in BlobLens :
        field = StandaloneField(t, f, vl, ser, sig, n)
    /\ buf \in PriorBuffers
    /\ op = NoCall
    /\ data_len = 0
    /\ prefix = NoPrefix
    /\ overflow_checks \in BOOLEAN
    /\ args = NoArgs
    /\ issued_value = NotCalled(zero)
    /\ issued_amount = NotCalled(NoAmount)
    /\ primitive = NoPrimitive

\* a variable-length payload of data_len bytes
InitVL ==
    /\ tx = NoTx
    /\ field = NoField
    /\ buf = <<>>
    /\ op = NoCall
    /\ data_len \in VLLengths
    /\ prefix = NoPrefix
    /\ overflow_checks \in BOOLEAN
    /\ args = NoArgs
    /\ issued_value = NotCalled(zero)
    /\ issued_amount = NotCalled(NoAmount)
    /\ primitive = NoPrimitive

\* a stand-alone field of every type code and field code
InitHeader ==
    /\ tx = NoTx
    /\ \E t \in 1..MaxCode, f \in 1..MaxCode, vl \in BOOLEAN :
        field = StandaloneField(t, f, vl, TRUE, TRUE, 1)
    /\ buf = <<>>
    /\ op = NoCall
    /\ data_len = 0
    /\ prefix = NoPrefix
    /\ overflow_checks \in BOOLEAN
    /\ args = NoArgs
    /\ issued_value = NotCalled(zero)
    /\ issued_amount = NotCalled(NoAmount)
    /\ primitive = NoPrimitive

\* a caller about to build an IssuedValue from a mantissa and an exponent
InitValue ==
    /\ tx = NoTx
    /\ field = NoField
    /\ buf = <<>>
    /\ op = NoCall
    /\ data_len = 0
    /\ prefix = NoPrefix
    /\ overflow_checks \in BOOLEAN
    /\ \E negative \in BOOLEAN, digits \in PositiveDigits \cup {<<0>>, I64MinDigits},
          exponent \in Exponents :
        /\ IsMantissa(negative, digits)
        /\ args = Args(negative, digits, exponent, NoCurrency)
    /\ issued_value = NotCalled(zero)
    /\ issued_amount = NotCalled(NoAmount)
    /\ primitive = NoPrimitive

\* a caller about to build an issued Amount of some currency
InitAmount ==
    /\ tx = NoTx
    /\ field = NoField
    /\ buf \in PriorBuffers
    /\ op = NoCall
    /\ data_len = 0
    /\ prefix = NoPrefix
    /\ overflow_checks \in BOOLEAN
    /\ \E negative \in BOOLEAN, digits \in AmountDigits, exponent \in AmountExponents,
          currency \in Currencies :
        /\ IsMantissa(negative, digits)
        /\ args = Args(negative, digits, exponent, currency)
    /\ issued_value = NotCalled(zero)
    /\ issued_amount = NotCalled(NoAmount)
    /\ primitive = NoPrimitive

\* an Amount field of drops and the buffer the caller hands to binary_serialize_to
InitDrops ==
    /\ tx = NoTx
    /\ \E drops \in DropsInputs : field = Field("Amount", Drops(drops))
    /\ buf \in PriorBuffers
    /\ op = NoCall
    /\ data_len = 0
    /\ prefix = NoPrefix
    /\ overflow_checks \in BOOLEAN
    /\ args = NoArgs
    /\ issued_value = NotCalled(zero)
    /\ issued_amount = NotCalled(NoAmount)
    /\ primitive = NoPrimitive

\* a SignerEntry field and the buffer the caller hands to binary_serialize_to
InitSignerEntry ==
    /\ tx = NoTx
    /\ \E entry \in EntryInputs : field = SignerEntryField(entry)
    /\ buf \in PriorBuffers
    /\ op = NoCall
    /\ data_len = 0
    /\ prefix = NoPrefix
    /\ overflow_checks \in BOOLEAN
    /\ args = NoArgs
    /\ issued_value = NotCalled(zero)
    /\ issued_amount = NotCalled(NoAmount)
    /\ primitive = NoPrimitive

\* a SignerEntries field and the buffer the caller hands to binary_serialize_to
InitSignerEntries ==
    /\ tx = NoTx
    /\ \E entries \in EntryLists :
        field = Field("SignerEntries", STArrayType(SignerEntryFields(entries)))
    /\ buf \in PriorBuffers
    /\ op = NoCall
    /\ data_len = 0
    /\ prefix = NoPrefix
    /\ overflow_checks \in BOOLEAN
    /\ args = NoArgs
    /\ issued_value = NotCalled(zero)
    /\ issued_amount = NotCalled(NoAmount)
    /\ primitive = NoPrimitive

\* a value of one of the types of types.rs and the buffer handed to binary_serialize_to
InitPrimitive ==
    /\ tx = NoTx
    /\ field = NoField
    /\ buf \in PriorBuffers
    /\ op = NoCall
    /\ data_len = 0
    /\ prefix = NoPrefix
    /\ overflow_checks \in BOOLEAN
    /\ args = NoArgs
    /\ issued_value = NotCalled(zero)
    /\ issued_amount = NotCalled(NoAmount)
    /\ IsPrimitiveInput(primitive)

Init ==
    \/ InitTx
    \/ InitField
    \/ InitVL
    \/ InitValue
    \/ InitAmount
    \/ InitDrops
    \/ InitSignerEntry
    \/ InitSignerEntries
    \/ InitPrimitive

\* tx.attach_signature(signature)
AttachSignature ==
    /\ tx # NoTx
    /\ \E signature \in Signatures :
        /\ tx' = attach_signature(tx, signature)
        /\ op' = Call("attach_signature", FALSE, signature)
    /\ UNCHANGED primitive
    /\ UNCHANGED <<field, buf, data_len, prefix, overflow_checks, args, issued_value, issued_amount>>

\* buf = tx.binary_serialize(for_signing)
BinarySerialize ==
    /\ tx # NoTx
    /\ \E for_signing \in BOOLEAN :
        /\ buf' = binary_serialize(tx, for_signing)
        /\ op' = Call("binary_serialize", for_signing, <<>>)
    /\ UNCHANGED primitive
    /\ UNCHANGED <<tx, field, data_len, prefix, overflow_checks, args, issued_value, issued_amount>>

\* field.binary_serialize_to(&mut buf, for_signing), once per field;
\* op.arg keeps the buffer as it was handed in
FieldSerializeTo ==
    /\ field # NoField
    /\ op.name = "new"
    /\ \E for_signing \in BOOLEAN :
        IF FieldPanics(field, for_signing)
        THEN /\ op' = Call("panic", for_signing, buf)
             /\ buf' = buf
        ELSE /\ op' = Call("binary_serialize_to", for_signing, buf)
             /\ buf' = BinarySerializeTo(buf, field, for_signing)
    /\ UNCHANGED primitive
    /\ UNCHANGED <<tx, field, data_len, prefix, overflow_checks, args, issued_value, issued_amount>>

\* `match data.len()` of binary_serialize_to, on the length alone
EncodeLength ==
    /\ tx = NoTx
    /\ field = NoField
    /\ args = NoArgs
    /\ primitive.ty = "none"
    /\ op.name = "new"
    /\ prefix' = LengthPrefix(data_len, overflow_checks)
    /\ op' = Call(IF prefix'.panic THEN "panic" ELSE "length_prefix", FALSE, <<>>)
    /\ UNCHANGED primitive
    /\ UNCHANGED <<tx, field, buf, data_len, overflow_checks, args, issued_value, issued_amount>>

\* value = IssuedValue::from_mantissa_exponent(mantissa, exponent)
FromMantissaExponent ==
    /\ args # NoArgs
    /\ issued_value.tag = "none"
    /\ issued_value' = from_mantissa_exponent(args.negative, FromDigits(args.digits, Zero64),
                                       args.exponent)
    /\ op' = Call("from_mantissa_exponent", FALSE, <<>>)
    /\ UNCHANGED primitive
    /\ UNCHANGED <<tx, field, buf, data_len, prefix, overflow_checks, args, issued_amount>>

\* buf = value.binary_serialize(for_signing), once per value
ValueSerialize ==
    /\ issued_value.tag = "Ok"
    /\ args.currency = NoCurrency
    /\ op.name = "from_mantissa_exponent"
    /\ \E for_signing \in BOOLEAN :
        IF overflow_checks /\ IssuedValueOverflows(issued_value.v)
        THEN /\ op' = Call("panic", for_signing, <<>>)
             /\ buf' = buf
        ELSE /\ op' = Call("binary_serialize", for_signing, <<>>)
             /\ buf' = IssuedValueSerializeTo(<<>>, issued_value.v)
    /\ UNCHANGED primitive
    /\ UNCHANGED <<tx, field, data_len, prefix, overflow_checks, args, issued_value, issued_amount>>

\* amount = IssuedAmount::from_issued_value(value, currency, issuer)
FromIssuedValue ==
    /\ issued_value.tag = "Ok"
    /\ args.currency # NoCurrency
    /\ issued_amount.tag = "none"
    /\ field = NoField
    /\ issued_amount' = from_issued_value(issued_value.v, args.currency, Issuer3)
    /\ op' = Call("from_issued_value", FALSE, <<>>)
    /\ UNCHANGED primitive
    /\ UNCHANGED <<tx, field, buf, data_len, prefix, overflow_checks, args, issued_value>>

\* field = Amount(AmountType::Issued(IssuedAmount { value, currency, issuer })):
\* the members of IssuedAmount are public
AmountIssued ==
    /\ issued_value.tag = "Ok"
    /\ args.currency # NoCurrency
    /\ field = NoField
    /\ field' = Field("Amount", Issued(IssuedAmount(issued_value.v, args.currency, Issuer3)))
    /\ op' = NoCall
    /\ UNCHANGED primitive
    /\ UNCHANGED <<tx, buf, data_len, prefix, overflow_checks, args, issued_value, issued_amount>>

\* primitive.binary_serialize_to(&mut buf, for_signing), once per value;
\* op.arg keeps the buffer as it was handed in
PrimitiveSerializeTo ==
    /\ primitive.ty # "none"
    /\ op.name = "new"
    /\ \E for_signing \in BOOLEAN :
        /\ op' = Call("primitive_serialize_to", for_signing, buf)
        /\ buf' = InnerSerializeTo(buf, primitive, for_signing)
    /\ UNCHANGED <<tx, field, data_len, prefix, overflow_checks, args, issued_value,
                   issued_amount, primitive>>

\* buf = encode_for_multi_signing(&tx, public_key)
EncodeForMultiSigning ==
    /\ tx # NoTx
    /\ \E public_key \in PublicKeys :
        /\ buf' = encode_for_multi_signing(tx, public_key)
        /\ op' = Call("encode_for_multi_signing", TRUE, public_key)
    /\ UNCHANGED <<tx, field, data_len, prefix, overflow_checks, args, issued_value,
                   issued_amount, primitive>>

\* buf = digest_for_multi_signing(&tx, public_key)
DigestForMultiSigning ==
    /\ tx # NoTx
    /\ \E public_key \in PublicKeys :
        /\ buf' = digest_for_multi_signing(tx, public_key)
        /\ op' = Call("digest_for_multi_signing", TRUE, public_key)
    /\ UNCHANGED <<tx, field, data_len, prefix, overflow_checks, args, issued_value,
                   issued_amount, primitive>>

\* buf = digest_for_multi_signing_pre(&buf, public_key), buf being a
\* serialization of tx; op.for_signing keeps which form it was
DigestForMultiSigningPre ==
    /\ tx # NoTx
    /\ op.name = "binary_serialize"
    /\ \E public_key \in PublicKeys :
        /\ buf' = digest_for_multi_signing_pre(buf, public_key)
        /\ op' = Call("digest_for_multi_signing_pre", op.for_signing, public_key)
    /\ UNCHANGED <<tx, field, data_len, prefix, overflow_checks, args, issued_value,
                   issued_amount, primitive>>

Next ==
    \/ PrimitiveSerializeTo
    \/ EncodeForMultiSigning
    \/ DigestForMultiSigning
    \/ DigestForMultiSigningPre
    \/ AttachSignature
    \/ BinarySerialize
    \/ FieldSerializeTo
    \/ EncodeLength
    \/ FromMantissaExponent
    \/ ValueSerialize
    \/ FromIssuedValue
    \/ AmountIssued

Spec == Init /\ [][Next]_vars

NextHeader == FieldSerializeTo

SpecHeader == InitHeader /\ [][NextHeader]_vars

---------------------------------------------------------------------------
(* Properties *)

IndexOf(fs, name) == CHOOSE i \in 1..Len(fs) : fs[i].name = name

Names(fs) == [i \in 1..Len(fs) |-> fs[i].name]

RECURSIVE Flatten(_)
Flatten(ss) == IF ss = <<>> THEN <<>> ELSE Head(ss) \o Flatten(Tail(ss))

\* each field of fs encoded on its own, in a fresh buffer
Encodings(fs, for_signing) ==
    [i \in 1..Len(fs) |-> BinarySerializeTo(<<>>, fs[i], for_signing)]

\* block occurs in s as a contiguous run of bytes
Occurs(block, s) ==
    \E i \in 0..(Len(s) - Len(block)) : SubSeq(s, i + 1, i + Len(block)) = block

\* the TxnSignature field of t as the wire carries it: header 0x74, length, bytes
SignatureBlock(t) ==
    <<116, Len(t.txn_signature.inner.v)>> \o t.txn_signature.inner.v

\* the offset of the TxnSignature field in the final form of t
SignaturePosition(t) ==
    LET fs == to_canonical_fields(t)
        k == IndexOf(fs, "TxnSignature")
    IN  Len(Flatten(Encodings(SubSeq(fs, 1, k - 1), FALSE)))

\* C1: to_canonical_fields returns the declared fields ordered by type_code
\* first and field_code second: every adjacent pair (f1, f2) has
\* f1.type_code < f2.type_code, or equal type codes and f1.field_code <= f2.field_code.
C1_TypeCodeThenFieldCode ==
    tx # NoTx =>
        LET fs == to_canonical_fields(tx)
        IN  /\ Len(fs) = Len(DeclaredFields(tx))
            /\ \A i \in 1..(Len(fs) - 1) :
                \/ fs[i].type_code < fs[i + 1].type_code
                \/ /\ fs[i].type_code = fs[i + 1].type_code
                   /\ fs[i].field_code <= fs[i + 1].field_code

C3_SkippedFieldEmitsNothing ==
    /\ (/\ field # NoField
        /\ op.name \in {"binary_serialize_to", "panic"}
        /\ (~field.is_serialized \/ (op.for_signing /\ ~field.is_signing_field)))
       => (op.name = "binary_serialize_to" /\ buf = op.arg)
    /\ tx # NoTx =>
        LET fs == to_canonical_fields(tx)
            k == IndexOf(fs, "TxnSignature")
            others == SubSeq(fs, 1, k - 1) \o SubSeq(fs, k + 1, Len(fs))
            signing == binary_serialize(tx, TRUE)
        IN  /\ signing = Flatten(Encodings(others, FALSE))
            /\ Len(tx.txn_signature.inner.v) = 65 => ~Occurs(SignatureBlock(tx), signing)
            /\ (op.name = "binary_serialize" /\ op.for_signing) => buf = signing

\* a serialized field that is not a signing field was encoded for signing
\* into a buffer that already held bytes
C3_Witness ==
    /\ field # NoField
    /\ op.name = "binary_serialize_to"
    /\ op.for_signing
    /\ field.is_serialized
    /\ ~field.is_signing_field
    /\ op.arg # <<>>

\* C4: attach_signature replaces only txn_signature: the signing form is
\* unchanged by the call, and the final form changes only inside the
\* TxnSignature block, which then carries the 65 bytes just attached.
C4_AttachSignatureFrame ==
    [][op'.name = "attach_signature" =>
        LET old_full == binary_serialize(tx, FALSE)
            new_full == binary_serialize(tx', FALSE)
            p == SignaturePosition(tx)
            old_block == SignatureBlock(tx)
        IN  /\ Len(op'.arg) = 65
            /\ binary_serialize(tx', TRUE) = binary_serialize(tx, TRUE)
            /\ new_full = SubSeq(old_full, 1, p) \o <<116, 65>> \o op'.arg
                          \o SubSeq(old_full, p + Len(old_block) + 1, Len(old_full))
    ]_vars

\* a signature was attached over another one that had been serialized before
C4_Witness ==
    /\ tx # NoTx
    /\ op.name = "attach_signature"
    /\ \E s \in Signatures :
        /\ s # tx.txn_signature.inner.v
        /\ buf = binary_serialize(attach_signature(tx, s), FALSE)

\* C5: binary_serialize(fs) is the concatenation, in to_canonical_fields order,
\* of each declared field's own binary_serialize(fs) and nothing else; for
\* SignerListSet that order is TransactionType, Flags, SourceTag, Sequence,
\* SignerQuorum, TicketSequence, Fee, SigningPubKey, TxnSignature, Account,
\* SignerEntries.
C5_ConcatenationInCanonicalOrder ==
    (tx # NoTx /\ op.name = "binary_serialize") =>
        LET fs == to_canonical_fields(tx)
        IN  /\ buf = Flatten(Encodings(fs, op.for_signing))
            /\ tx.kind = "SignerListSet" =>
                Names(fs) = <<"TransactionType", "Flags", "SourceTag", "Sequence",
                              "SignerQuorum", "TicketSequence", "Fee", "SigningPubKey",
                              "TxnSignature", "Account", "SignerEntries">>

\* the sequence s with the elements at i and j exchanged
Swap(s, i, j) ==
    [k \in 1..Len(s) |-> IF k = i THEN s[j] ELSE IF k = j THEN s[i] ELSE s[k]]

\* C6: no two declared fields of a transaction have the same
\* (type_code, field_code); of two distinct fields exactly one precedes the
\* other; and to_canonical_fields does not depend on the declaration order.
C6_StrictTotalOrder ==
    tx # NoTx =>
        LET d == DeclaredFields(tx)
        IN  /\ \A i, j \in 1..Len(d) :
                i # j => <<d[i].type_code, d[i].field_code>>
                           # <<d[j].type_code, d[j].field_code>>
            /\ \A i, j \in 1..Len(d) :
                i # j => (CanonicalCompare(d[i], d[j]) = "Less")
                           # (CanonicalCompare(d[j], d[i]) = "Less")
            /\ \A i, j \in 1..Len(d) :
                i < j => SortBy(Swap(d, i, j)) = to_canonical_fields(tx)

\* a transaction whose declaration order is not its canonical order
C6_Witness ==
    /\ tx # NoTx
    /\ DeclaredFields(tx) # to_canonical_fields(tx)
    /\ \E i, j \in 1..Len(DeclaredFields(tx)) :
        /\ i < j
        /\ DeclaredFields(tx)[i].field_code = DeclaredFields(tx)[j].field_code

\* the field is emitted by the call: neither early return is taken
Emitted(f, for_signing) ==
    f.is_serialized /\ ~(for_signing /\ ~f.is_signing_field)

\* the header the protocol gives type code t and field code f
ProtocolHeader(t, f) ==
    IF t < 16 /\ f < 16 THEN <<t * 16 + f>>
    ELSE IF t < 16 THEN <<t * 16, f>>
    ELSE IF f < 16 THEN <<f, t>>
    ELSE <<0, t, f>>

\* C7: for type code t and field code f in 1..255 the header is one byte
\* (t<<4)|f when both are below 16, the two bytes (t<<4), f when only t is,
\* the two bytes f, t when only f is, and 0x00, t, f otherwise; it comes
\* before the length prefix and the payload.
C7_FieldHeader ==
    (/\ field # NoField
     /\ op.name \in {"binary_serialize_to", "panic"}
     /\ field.type_code \in 1..255
     /\ field.field_code \in 1..255
     /\ Emitted(field, op.for_signing))
    =>  LET h == ProtocolHeader(field.type_code, field.field_code)
            payload == field.inner.v
            rest == SubSeq(buf, Len(op.arg) + Len(h) + 1, Len(buf))
        IN  /\ op.name = "binary_serialize_to"
            /\ Len(h) = (IF field.type_code < 16 /\ field.field_code < 16 THEN 1
                         ELSE IF field.type_code < 16 \/ field.field_code < 16 THEN 2
                         ELSE 3)
            /\ SubSeq(buf, 1, Len(op.arg) + Len(h)) = op.arg \o h
            /\ Len(rest) = Len(payload) + (IF field.is_variable_length THEN 1 ELSE 0)
            /\ SubSeq(rest, Len(rest) - Len(payload) + 1, Len(rest)) = payload

\* a variable-length field with a three-byte header was serialized
C7_Witness ==
    /\ field # NoField
    /\ op.name = "binary_serialize_to"
    /\ field.type_code = 17
    /\ field.field_code = 255
    /\ field.is_variable_length
    /\ buf = <<0, 17, 255, 1, 171>>

\* the length prefix the protocol gives a payload of len <= 12480 bytes
ProtocolPrefix(len) ==
    IF len <= 192 THEN <<len>>
    ELSE <<193 + ((len - 193) \div 256), (len - 193) % 256>>

\* C8: a variable-length field that is not an AccountID gets the one-byte
\* prefix len for 0 <= len <= 192 and the two bytes 193 + (len-193) div 256,
\* (len-193) mod 256 for 193 <= len <= 12480; 192 gives [192], 193 gives
\* [193, 0], 12480 gives [240, 255]; the payload follows unchanged.
C8_LengthPrefix ==
    /\ (tx = NoTx /\ field = NoField /\ args = NoArgs /\ primitive.ty = "none"
        /\ op.name # "new"
        /\ data_len <= 12480)
       => /\ op.name = "length_prefix"
          /\ prefix.bytes = ProtocolPrefix(data_len)
          /\ data_len <= 192 => Len(prefix.bytes) = 1
          /\ data_len >= 193 =>
                /\ Len(prefix.bytes) = 2
                /\ prefix.bytes[1] >= 193
                /\ prefix.bytes[1] <= 240
                /\ prefix.bytes[2] \in 0..255
                /\ 193 + (prefix.bytes[1] - 193) * 256 + prefix.bytes[2] = data_len
          /\ data_len = 192 => prefix.bytes = <<192>>
          /\ data_len = 193 => prefix.bytes = <<193, 0>>
          /\ data_len = 12480 => prefix.bytes = <<240, 255>>
    /\ (/\ field # NoField
        /\ op.name \in {"binary_serialize_to", "panic"}
        /\ Emitted(field, op.for_signing)
        /\ field.is_variable_length
        /\ field.type_code # 8
        /\ Len(field.inner.v) <= 12480)
       => /\ op.name = "binary_serialize_to"
          /\ buf = op.arg \o ProtocolHeader(field.type_code, field.field_code)
                   \o ProtocolPrefix(Len(field.inner.v)) \o field.inner.v

\* a blob of 193 bytes was serialized behind a computed prefix
C8_Witness ==
    /\ field # NoField
    /\ op.name = "binary_serialize_to"
    /\ Emitted(field, op.for_signing)
    /\ field.is_variable_length
    /\ field.type_code = 7
    /\ Len(field.inner.v) = 193
    /\ Len(buf) = Len(op.arg) + 1 + 2 + 193

\* C9: for a payload length len in 12481..918744 the encoding does not fail
\* and emits three prefix bytes b1, b2, b3 with 241 <= b1 <= 254 and
\* 12481 + (b1-241)*65536 + b2*256 + b3 = len.
C9_ThreeBytePrefix ==
    (/\ tx = NoTx
     /\ field = NoField
     /\ op.name # "new"
     /\ data_len >= 12481
     /\ data_len <= 918744)
    =>  /\ op.name = "length_prefix"
        /\ ~prefix.panic
        /\ Len(prefix.bytes) = 3
        /\ prefix.bytes[1] >= 241
        /\ prefix.bytes[1] <= 254
        /\ 12481 + (prefix.bytes[1] - 241) * 65536 + prefix.bytes[2] * 256
             + prefix.bytes[3] = data_len

\* C10: a variable-length field of the AccountID type (8) always gets the
\* single prefix byte 0x14, whatever the payload length; Account and
\* Destination serialize as header, 0x14 and the 20 account bytes.
C10_AccountIdPrefix ==
    /\ (/\ field # NoField
        /\ op.name \in {"binary_serialize_to", "panic"}
        /\ Emitted(field, op.for_signing)
        /\ field.is_variable_length
        /\ field.type_code = 8)
       => /\ op.name = "binary_serialize_to"
          /\ buf = op.arg \o ProtocolHeader(8, field.field_code) \o <<20>> \o field.inner.v
    /\ tx # NoTx =>
        \A for_signing \in BOOLEAN :
            /\ Len(tx.account.inner.v) = 20
            /\ BinarySerializeTo(<<>>, tx.account, for_signing)
                 = <<129, 20>> \o tx.account.inner.v
            /\ "destination" \in DOMAIN tx =>
                /\ Len(tx.destination.inner.v) = 20
                /\ BinarySerializeTo(<<>>, tx.destination, for_signing)
                     = <<131, 20>> \o tx.destination.inner.v

\* an AccountID-typed field with a payload that is not 20 bytes long was serialized
C10_Witness ==
    /\ field # NoField
    /\ op.name = "binary_serialize_to"
    /\ Emitted(field, op.for_signing)
    /\ field.is_variable_length
    /\ field.type_code = 8
    /\ Len(field.inner.v) = 193
    /\ Len(buf) > Len(op.arg) + 193

---------------------------------------------------------------------------
(* IssuedValue: the arithmetic the claims are stated in *)

\* 10^15 and 10^16 - 1, from their decimal digits
TenTo15 == FromDigits(OneAndZeros(15), Zero64)
TenTo16Less1 == FromDigits(Rep(9, 16), Zero64)

\* from_mantissa_exponent has been called on args and has returned
Returned == args # NoArgs /\ issued_value.tag # "none"

IsZeroMantissa(a) == a.digits = <<0>>
IsI64Min(a) == a.negative /\ a.digits = I64MinDigits

\* the exponent of m * 10^e once |m| is written with 16 significant digits
NormalizedExponent(a) == a.exponent + Len(a.digits) - 16

\* the first 16 significant digits of |m|, padded with zeros
NormalizedDigits(a) ==
    IF Len(a.digits) >= 16 THEN SubSeq(a.digits, 1, 16)
    ELSE a.digits \o Rep(0, 16 - Len(a.digits))

InMantissaRange(magnitude) ==
    ~LtLimbs(magnitude, TenTo15) /\ ~LtLimbs(TenTo16Less1, magnitude)

\* C11: from_mantissa_exponent terminates (its two loops run a bounded
\* number of times and it returns Ok or Err), and a value it returns as Ok is
\* the canonical zero or has 10^15 <= |mantissa| <= 10^16 - 1 and
\* -96 <= exponent <= 80.
C11_NormalizedRange ==
    Returned =>
        /\ issued_value.tag \in {"Ok", "Err"}
        /\ normalize_iterations(IssuedValue(args.negative,
               FromDigits(args.digits, Zero64), args.exponent)) <= 15
        /\ issued_value.tag = "Ok" =>
            \/ issued_value.v = IssuedValue(FALSE, Zero64, 0)
            \/ /\ InMantissaRange(issued_value.v.magnitude)
               /\ issued_value.v.exponent >= -96
               /\ issued_value.v.exponent <= 80

\* a value scaled up to the lower bounds, one scaled down to the upper bounds
C11_Witness ==
    /\ Returned
    /\ issued_value.tag = "Ok"
    /\ issued_value.v.magnitude = TenTo15
    /\ issued_value.v.exponent = -96
    /\ args.digits = <<1>>
    /\ args.exponent = -81

\* C13: from_mantissa_exponent(0, e) is Ok with mantissa 0 and exponent 0 for
\* every e in -128..127, and that value encodes to 80 00 00 00 00 00 00 00.
C13_ZeroMantissa ==
    (Returned /\ IsZeroMantissa(args)) =>
        /\ issued_value = Ok(IssuedValue(FALSE, Zero64, 0))
        /\ args.currency = NoCurrency /\ op.name # "from_mantissa_exponent" =>
            /\ op.name = "binary_serialize"
            /\ buf = <<128, 0, 0, 0, 0, 0, 0, 0>>

C13_Witness ==
    /\ Returned
    /\ IsZeroMantissa(args)
    /\ args.exponent = -128
    /\ op.name = "binary_serialize"
    /\ overflow_checks
    /\ Len(buf) = 8

\* C14 as stated: Err(OutOfRange) for every non-zero mantissa whose normalized
\* exponent exceeds 80, and Ok for every non-zero input whose normalized
\* exponent is at most 80.
C14_OutOfRangeAbove80 ==
    (Returned /\ ~IsZeroMantissa(args)) =>
        IF NormalizedExponent(args) > 80
        THEN issued_value.tag = "Err" /\ issued_value.err = "OutOfRange"
        ELSE issued_value.tag = "Ok"

\* C14 as amended: Err(OutOfRange) for every non-zero mantissa whose normalized
\* exponent exceeds 80, and Ok for every non-zero input other than i64::MIN
\* whose normalized exponent is at most 80.
C14_OutOfRangeAbove80_Amended ==
    (Returned /\ ~IsZeroMantissa(args)) =>
        IF NormalizedExponent(args) > 80
        THEN issued_value.tag = "Err" /\ issued_value.err = "OutOfRange"
        ELSE ~IsI64Min(args) => issued_value.tag = "Ok"

\* mantissa 1 with exponent 96: scaled to 10^15 with exponent 81
C14_Witness ==
    /\ Returned
    /\ args.digits = <<1>>
    /\ args.exponent = 96
    /\ issued_value.tag = "Err"

\* C15: from_mantissa_exponent(i64::MIN, e) is Err(OutOfRange) for every e.
C15_I64MinOutOfRange ==
    (Returned /\ IsI64Min(args)) =>
        issued_value.tag = "Err" /\ issued_value.err = "OutOfRange"

C15_Witness ==
    /\ Returned
    /\ IsI64Min(args)
    /\ args.exponent = 0
    /\ issued_value.tag = "Err"

\* C16: a non-zero mantissa other than i64::MIN whose normalized exponent is
\* below -96 gives Ok(zero).
C16_UnderflowIsZero ==
    (Returned /\ ~IsZeroMantissa(args) /\ ~IsI64Min(args)
        /\ NormalizedExponent(args) < -96) =>
        issued_value = Ok(IssuedValue(FALSE, Zero64, 0))

\* mantissa 1 with exponent -82
C16_Witness ==
    /\ Returned
    /\ args.digits = <<1>>
    /\ args.exponent = -82
    /\ issued_value.tag = "Ok"
    /\ issued_value.v.magnitude = Zero64

\* C17: normalizing a value from_mantissa_exponent returned as Ok gives Ok
\* with the same mantissa and exponent.
C17_Idempotent ==
    (Returned /\ issued_value.tag = "Ok") =>
        LET again == from_mantissa_exponent(issued_value.v.negative,
                         issued_value.v.magnitude, issued_value.v.exponent)
        IN  /\ again.tag = "Ok"
            /\ again.v.negative = issued_value.v.negative
            /\ again.v.magnitude = issued_value.v.magnitude
            /\ again.v.exponent = issued_value.v.exponent

\* a negative value that normalization changed
C17_Witness ==
    /\ Returned
    /\ args.negative
    /\ args.digits = I64MaxDigits
    /\ issued_value.tag = "Ok"
    /\ issued_value.v.negative
    /\ issued_value.v.exponent = args.exponent + 3

\* C12: every normalized non-zero IssuedValue, exponents above 30 included,
\* serializes without failing to the 8 big-endian bytes of
\* 2^63 + (2^62 if mantissa > 0) + (exponent + 97) * 2^54 + |mantissa|; the
\* biased exponent fills bits 54..61 and |mantissa| stays below 2^54.
C12_IssuedValueEncoding ==
    (Returned /\ args.currency = NoCurrency /\ issued_value.tag = "Ok"
        /\ issued_value.v.magnitude # Zero64 /\ op.name # "from_mantissa_exponent") =>
        LET v == issued_value.v
            top == 32768 + (IF v.negative THEN 0 ELSE 16384) + (v.exponent + 97) * 64
                   + v.magnitude[1]
        IN  /\ op.name = "binary_serialize"
            /\ v.magnitude[1] < 64
            /\ v.exponent + 97 >= 1 /\ v.exponent + 97 < 256
            /\ buf = ToBeBytes(<<top, v.magnitude[2], v.magnitude[3], v.magnitude[4]>>)

\* the currency codes from_issued_value has to refuse
IsReservedCurrency(c) ==
    \/ c = Standard(<<88, 82, 80>>)
    \/ c.ty = "NonStandard" /\ c.v[1] = 0

\* C18: from_issued_value returns Err(InvalidData) if and only if the currency
\* is Standard("XRP") or NonStandard with first byte 0x00, and otherwise Ok with
\* an IssuedAmount of exactly the value, currency and issuer given.
C18_FromIssuedValue ==
    (args # NoArgs /\ issued_amount.tag # "none") =>
        IF IsReservedCurrency(args.currency)
        THEN issued_amount.tag = "Err" /\ issued_amount.err = "InvalidData"
        ELSE /\ issued_amount.tag = "Ok"
             /\ issued_amount.v = IssuedAmount(issued_value.v, args.currency, Issuer3)

\* C19: for v < 2^62 the Amount field of Drops(v) is 0x61 and the 8 big-endian
\* bytes of v + 2^62 (bit 63 clear, bit 62 set, v recovered by clearing bit
\* 62), for both values of for_signing; Drops(10) for signing is
\* 61 40 00 00 00 00 00 00 0a.
C19_DropsEncoding ==
    (field.name = "Amount" /\ field.inner.ty = "Drops" /\ op.name # "new"
        /\ field.inner.v[1] < 16384) =>
        LET v == field.inner.v
            out == SubSeq(buf, Len(op.arg) + 2, Len(buf))
        IN  /\ op.name = "binary_serialize_to"
            /\ Len(buf) = Len(op.arg) + 9
            /\ SubSeq(buf, 1, Len(op.arg) + 1) = op.arg \o <<97>>
            /\ out = <<(v[1] + 16384) \div 256, (v[1] + 16384) % 256,
                       v[2] \div 256, v[2] % 256, v[3] \div 256, v[3] % 256,
                       v[4] \div 256, v[4] % 256>>
            /\ out[1] >= 64 /\ out[1] < 128
            /\ <<(out[1] - 64) * 256 + out[2], out[3] * 256 + out[4],
                 out[5] * 256 + out[6], out[7] * 256 + out[8]>> = v
            /\ (v = <<0, 0, 0, 10>> /\ op.for_signing /\ op.arg = <<>>) =>
                buf = <<97, 64, 0, 0, 0, 0, 0, 0, 10>>

\* the largest drops below 2^62, serialized not for signing
C19_Witness ==
    /\ field.name = "Amount"
    /\ field.inner.ty = "Drops"
    /\ field.inner.v = <<16383, 65535, 65535, 65535>>
    /\ op.name = "binary_serialize_to"
    /\ ~op.for_signing
    /\ Len(buf) = Len(op.arg) + 9

\* C20: the Amount field of Issued(a) is 0x61 and exactly 48 bytes: the 8
\* bytes of a.value, the 20 bytes of a.currency, the 20 issuer bytes; for
\* mantissa 5, exponent 0, currency "ASA" and an issuer of twenty 0x03 it is,
\* for signing, 61 d4 91 c3 79 37 e0 80 00, twelve 00, 41 53 41, five 00,
\* twenty 03.
C20_IssuedAmountEncoding ==
    (field.name = "Amount" /\ field.inner.ty = "Issued" /\ op.name # "new") =>
        LET a == field.inner.v
        IN  /\ op.name = "binary_serialize_to"
            /\ Len(buf) = Len(op.arg) + 1 + 48
            /\ buf = op.arg \o <<97>> \o IssuedValueSerializeTo(<<>>, a.value)
                     \o CurrencyCodeSerializeTo(<<>>, a.currency) \o a.issuer
            /\ Len(IssuedValueSerializeTo(<<>>, a.value)) = 8
            /\ Len(CurrencyCodeSerializeTo(<<>>, a.currency)) = 20
            /\ (args = Args(FALSE, <<5>>, 0, ASA) /\ op.for_signing /\ op.arg = <<>>) =>
                buf = <<97, 212, 145, 195, 121, 55, 224, 128, 0>> \o Rep(0, 12)
                      \o <<65, 83, 65>> \o Rep(0, 5) \o Rep(3, 20)

---------------------------------------------------------------------------
(* Primitive values, currency codes, signer entries and arrays *)

\* the bytes a call appended to the buffer it was handed
Appended == SubSeq(buf, Len(op.arg) + 1, Len(buf))

\* a value was serialized on its own and the bytes handed in are still in front
PrimitiveSerialized ==
    /\ op.name = "primitive_serialize_to"
    /\ Len(buf) >= Len(op.arg)
    /\ SubSeq(buf, 1, Len(op.arg)) = op.arg

\* the two bytes of a 16-bit limb, most significant first
LimbBytes(limb) == <<limb \div 256, limb % 256>>

\* C21: a CurrencyCode always serializes to exactly 20 bytes: Standard(c) as
\* twelve 0x00, the three bytes of c, five 0x00; NonStandard(b) as its twenty
\* bytes verbatim; the encoding of a valid Standard code never equals the
\* encoding of a valid NonStandard code (whose first byte is not 0x00).
C21_CurrencyCodeEncoding ==
    (primitive.ty \in {"Standard", "NonStandard"} /\ op.name # "new") =>
        /\ PrimitiveSerialized
        /\ Len(Appended) = 20
        /\ primitive.ty = "Standard" =>
            /\ \A i \in 1..12 : Appended[i] = 0
            /\ \A i \in 1..3 : Appended[12 + i] = primitive.v[i]
            /\ \A i \in 16..20 : Appended[i] = 0
        /\ primitive.ty = "NonStandard" => Appended = primitive.v
        /\ \A c \in CurrencyInputs :
            (c.ty # primitive.ty /\ is_valid(c) /\ is_valid(primitive)) =>
                InnerSerializeTo(<<>>, c, op.for_signing) # Appended

\* "ASA" serialized behind two earlier bytes
C21_Witness ==
    /\ primitive.ty = "Standard"
    /\ primitive.v = ASA.v
    /\ op.name = "primitive_serialize_to"
    /\ op.arg = <<1, 2>>
    /\ buf = <<1, 2>> \o Rep(0, 12) \o <<65, 83, 65>> \o Rep(0, 5)
    /\ \E c \in CurrencyInputs : c.ty = "NonStandard" /\ is_valid(c) /\ c.v[1] = 65

\* the account and the weight of a SignerEntryType
EntryAccount(e) == e.v[1].inner.v
EntryWeight(e) == e.v[2].inner.v

\* the object the protocol gives a signer entry: SignerWeight, Account, end marker
SignerEntryObject(e) ==
    <<19>> \o LimbBytes(EntryWeight(e)) \o <<129, 20>> \o EntryAccount(e) \o <<225>>

\* C22: SignerEntryType(account, weight) serializes as the SignerWeight field
\* (0x13, two bytes big-endian), then the Account field (0x81, 0x14, the 20
\* bytes), then one 0xE1 as the last byte; the weight comes first although the
\* account is the first member; as a SignerEntry field the object follows the
\* header 0xEB with no length prefix.
C22_SignerEntryEncoding ==
    /\ (primitive.ty = "SignerEntry" /\ op.name # "new") =>
        /\ PrimitiveSerialized
        /\ Appended = SignerEntryObject(primitive)
        /\ Len(Appended) = 26
        /\ Appended[26] = 225
        /\ primitive.v[1].name = "Account"
        /\ SubSeq(Appended, 1, 3) = <<19>> \o LimbBytes(EntryWeight(primitive))
        /\ SubSeq(Appended, 4, 25) = <<129, 20>> \o EntryAccount(primitive)
    /\ (field.name = "SignerEntry" /\ op.name # "new") =>
        /\ op.name = "binary_serialize_to"
        /\ buf = op.arg \o <<235>> \o SignerEntryObject(field.inner)
        /\ Len(buf) = Len(op.arg) + 27

\* the entry of account [1; 20] and weight 256, as an object and as a field
C22_Witness ==
    \/ /\ primitive.ty = "SignerEntry"
       /\ op.name = "primitive_serialize_to"
       /\ EntryWeight(primitive) = 256
       /\ buf = op.arg \o <<19, 1, 0, 129, 20>> \o EntryAccount(primitive) \o <<225>>
    \/ /\ field.name = "SignerEntry"
       /\ op.name = "binary_serialize_to"
       /\ EntryWeight(field.inner) = 256
       /\ buf = op.arg \o <<235, 19, 1, 0, 129, 20>> \o EntryAccount(field.inner) \o <<225>>

\* the elements of an array as the protocol lays them out, in the order given
ArrayElements(a) ==
    Flatten([i \in 1..Len(a.v) |-> <<235>> \o SignerEntryObject(a.v[i].inner)])

\* C23: STArrayType([e1, .., en]), n >= 0, serializes as the encodings of the
\* elements back to back in the order the caller gave (never re-sorted), each
\* entry ending with its own 0xE1, and then exactly one 0xF1, with no 0xF1
\* between the elements; the empty array is the single byte 0xF1.
C23_ArrayEncoding ==
    /\ (primitive.ty = "STArray" /\ op.name # "new") =>
        /\ PrimitiveSerialized
        /\ Appended = ArrayElements(primitive) \o <<241>>
        /\ Len(Appended) = 27 * Len(primitive.v) + 1
        /\ \A i \in 1..Len(primitive.v) : Appended[27 * i] = 225
        /\ primitive.v = <<>> => Appended = <<241>>
    /\ (field.name = "SignerEntries" /\ op.name # "new") =>
        /\ op.name = "binary_serialize_to"
        /\ buf = op.arg \o <<244>> \o ArrayElements(field.inner) \o <<241>>
        /\ Len(buf) = Len(op.arg) + 27 * Len(field.inner.v) + 2

\* three entries given in descending account order, and the empty array
C23_Witness ==
    \/ /\ primitive.ty = "STArray"
       /\ op.name = "primitive_serialize_to"
       /\ Len(primitive.v) = 3
       /\ EntryAccount(primitive.v[1].inner) = Rep(241, 20)
       /\ EntryAccount(primitive.v[3].inner) = Account1
       /\ Len(buf) = Len(op.arg) + 82
    \/ /\ primitive.ty = "STArray"
       /\ primitive.v = <<>>
       /\ op.name = "primitive_serialize_to"
       /\ buf = op.arg \o <<241>>

\* the types whose values are a fixed or given number of raw bytes
FixedLength ==
    [UInt16 |-> 2, UInt32 |-> 4, UInt64 |-> 8, Hash160 |-> 20, Hash256 |-> 32, AccountId |-> 20]

\* C26: serializing a primitive appends only its own bytes (the bytes already
\* in the buffer stay) and its length does not depend on for_signing: UInt16 2,
\* UInt32 4, UInt64 8 bytes big-endian; Hash160 20, Hash256 32, AccountId 20
\* bytes verbatim; Blob its n bytes with no prefix.
C26_PrimitiveEncoding ==
    (primitive.ty \in DOMAIN FixedLength \cup {"Blob"} /\ op.name # "new") =>
        /\ PrimitiveSerialized
        /\ primitive.ty # "Blob" => Len(Appended) = FixedLength[primitive.ty]
        /\ primitive.ty = "UInt16" => Appended = LimbBytes(primitive.v)
        /\ primitive.ty = "UInt32" =>
            Appended = LimbBytes(primitive.v[1]) \o LimbBytes(primitive.v[2])
        /\ primitive.ty = "UInt64" =>
            Appended = LimbBytes(primitive.v[1]) \o LimbBytes(primitive.v[2])
                       \o LimbBytes(primitive.v[3]) \o LimbBytes(primitive.v[4])
        /\ primitive.ty \in {"Hash160", "Hash256", "AccountId", "Blob"} =>
            Appended = primitive.v
        /\ buf = InnerSerializeTo(op.arg, primitive, ~op.for_signing)

\* 38,887,387 as a UInt32 behind two earlier bytes, and a blob of 193 bytes
C26_Witness ==
    \/ /\ primitive.ty = "UInt32"
       /\ primitive.v = <<593, 24539>>
       /\ op.name = "primitive_serialize_to"
       /\ buf = <<1, 2, 2, 81, 95, 219>>
    \/ /\ primitive.ty = "Blob"
       /\ op.name = "primitive_serialize_to"
       /\ Len(primitive.v) = 193
       /\ Len(buf) = Len(op.arg) + 193

---------------------------------------------------------------------------
(* The upper end of the length prefix *)

\* C25: a variable-length field that is not of the AccountID type and whose
\* payload is longer than 918,744 bytes makes the encoding panic ("data too
\* long"), never a truncated or wrapped prefix; every length from 0 to
\* 918,744 is encoded without panicking.
C25_TooLongPanics ==
    (/\ tx = NoTx
     /\ field = NoField
     /\ args = NoArgs
     /\ primitive.ty = "none"
     /\ op.name # "new")
    =>  /\ data_len > MaxVLLen => (op.name = "panic" /\ prefix.panic /\ prefix.bytes = <<>>)
        /\ data_len <= MaxVLLen => (op.name = "length_prefix" /\ ~prefix.panic)

---------------------------------------------------------------------------
(* Empty and zero fields of a transaction *)

\* C27: a transaction built by new() always emits its blob fields, also when
\* they are empty: before attach_signature the final form carries TxnSignature
\* as 0x74 0x00; with signing_pub_key None, SigningPubKey is 0x73 0x00 in
\* both forms; no field is left out because its value is empty or zero.
C27_EmptyFieldsEmitted ==
    (tx # NoTx /\ op.name = "binary_serialize") =>
        LET fs == to_canonical_fields(tx)
            enc == Encodings(fs, op.for_signing)
            Offset(k) == Len(Flatten(SubSeq(enc, 1, k - 1)))
            sig == IndexOf(fs, "TxnSignature")
            key == IndexOf(fs, "SigningPubKey")
        IN  /\ buf = Flatten(enc)
            /\ Len(fs) = Cardinality(DOMAIN tx) - 1
            /\ (tx.txn_signature.inner.v = <<>> /\ ~op.for_signing) =>
                /\ Len(enc[sig]) = 2
                /\ SubSeq(buf, Offset(sig) + 1, Offset(sig) + 2) = <<116, 0>>
            /\ tx.signing_pub_key.inner.v = <<>> =>
                /\ Len(enc[key]) = 2
                /\ SubSeq(buf, Offset(key) + 1, Offset(key) + 2) = <<115, 0>>
            /\ \A i \in 1..Len(fs) :
                (fs[i].name # "TxnSignature" \/ ~op.for_signing) =>
                    LET header == ProtocolHeader(fs[i].type_code, fs[i].field_code)
                    IN  /\ Len(enc[i]) > Len(header)
                        /\ SubSeq(buf, Offset(i) + 1, Offset(i) + Len(header)) = header

\* a payment of amount 0 and sequence 0 without a signing key, in its final
\* form before a signature is attached
C27_Witness ==
    /\ tx # NoTx
    /\ tx.kind = "Payment"
    /\ op.name = "binary_serialize"
    /\ ~op.for_signing
    /\ tx.txn_signature.inner.v = <<>>
    /\ tx.signing_pub_key.inner.v = <<>>
    /\ tx.sequence.inner.v = <<0, 0>>
    /\ tx.amount.inner.v = Zero64
    /\ Occurs(<<115, 0>>, buf)
    /\ Occurs(<<116, 0>>, buf)

---------------------------------------------------------------------------
(* Normalization keeps sign and value *)

\* C28: whenever from_mantissa_exponent(m, e) returns a non-zero value v, v
\* has the sign of m; when |m| has at most 16 digits, v.mantissa * 10^v.exponent
\* is m * 10^e exactly (|m| is padded with k zeros and the exponent lowered by
\* k); when |m| has more than 16 digits, v is m cut to its first 16 digits,
\* truncated toward zero and never rounded away from it.
C28_SignAndValuePreserved ==
    (Returned /\ issued_value.tag = "Ok" /\ issued_value.v.magnitude # Zero64) =>
        LET v == issued_value.v
            n == Len(args.digits)
        IN  /\ v.negative = args.negative
            /\ n <= 16 =>
                /\ v.magnitude = FromDigits(args.digits \o Rep(0, 16 - n), Zero64)
                /\ v.exponent = args.exponent - (16 - n)
            /\ n > 16 =>
                /\ v.magnitude = FromDigits(SubSeq(args.digits, 1, 16), Zero64)
                /\ v.exponent = args.exponent + (n - 16)
                /\ ~LtLimbs(FromDigits(args.digits, Zero64),
                            FromDigits(SubSeq(args.digits, 1, 16) \o Rep(0, n - 16), Zero64))

\* -99,999,999,999,999,999 becomes -9,999,999,999,999,999 with the exponent raised by one
C28_Witness ==
    /\ Returned
    /\ args.negative
    /\ args.digits = Rep(9, 17)
    /\ args.exponent = -15
    /\ issued_value.tag = "Ok"
    /\ issued_value.v.negative
    /\ issued_value.v.magnitude = TenTo16Less1
    /\ issued_value.v.exponent = -14

---------------------------------------------------------------------------
(* Reading a field header back *)

\* what a reader takes from the first bytes: the two nibbles of the first byte
\* say how long the header is and where the codes are
DecodeHeader(bytes) ==
    LET high == bytes[1] \div 16
        low == bytes[1] % 16
    IN  IF high # 0 /\ low # 0 THEN [type_code |-> high, field_code |-> low, length |-> 1]
        ELSE IF high # 0 THEN [type_code |-> high, field_code |-> bytes[2], length |-> 2]
        ELSE IF low # 0 THEN [type_code |-> bytes[2], field_code |-> low, length |-> 2]
        ELSE [type_code |-> bytes[2], field_code |-> bytes[3], length |-> 3]

\* p is a proper prefix of s
ProperPrefix(p, s) == Len(p) < Len(s) /\ SubSeq(s, 1, Len(p)) = p

\* codes at the edges of the three header forms
EdgeCodes == {1, 15, 16, 255}

\* C30: the field header is unambiguous for type and field codes in 1..255:
\* fields with different (type_code, field_code) never get the same header
\* bytes, no header is a proper prefix of another, and a reader recovers
\* (type_code, field_code) and the header's length from the first bytes alone.
C30_HeaderUnambiguous ==
    (/\ field # NoField
     /\ op.name = "binary_serialize_to"
     /\ field.type_code \in 1..255
     /\ field.field_code \in 1..255
     /\ Emitted(field, op.for_signing))
    =>  LET h == FieldHeader(field.type_code, field.field_code)
            read == DecodeHeader(SubSeq(buf, Len(op.arg) + 1, Len(buf)))
        IN  /\ read.type_code = field.type_code
            /\ read.field_code = field.field_code
            /\ read.length = Len(h)
            /\ SubSeq(buf, Len(op.arg) + 1, Len(op.arg) + read.length) = h
            /\ \A t \in EdgeCodes, f \in EdgeCodes :
                (t # field.type_code \/ f # field.field_code) =>
                    LET other == FieldHeader(t, f)
                    IN  /\ other # h
                        /\ ~ProperPrefix(other, h)
                        /\ ~ProperPrefix(h, other)

\* field code 15 of type 255 is read back from 0x0F 0xFF although 0x0F alone is no header
C30_Witness ==
    /\ field # NoField
    /\ op.name = "binary_serialize_to"
    /\ field.type_code = 255
    /\ field.field_code = 15
    /\ ~field.is_variable_length
    /\ buf = <<15, 255, 171>>
    /\ DecodeHeader(buf).length = 2

---------------------------------------------------------------------------
(* Multi-signing *)

\* the fields of t other than TxnSignature, in serialization order
FieldsButSignature(t) ==
    SelectSeq(to_canonical_fields(t), LAMBDA f : f.name # "TxnSignature")

\* t before any signature was attached
Unsigned(t) == [t EXCEPT !.txn_signature = Field("TxnSignature", BlobType(<<>>))]

\* C24: encode_for_multi_signing(tx, pk) is the four bytes 53 4D 54 00, then
\* tx.binary_serialize(true), then the 20-byte account id of pk; it is
\* 4 + len(signing form) + 20 bytes long and holds no TxnSignature field;
\* digest_for_multi_signing(tx, pk) is the first 32 of the 64 bytes of the
\* SHA-512 hash of exactly that byte string.
C24_MultiSigningEncoding ==
    /\ (tx # NoTx /\ op.name = "encode_for_multi_signing") =>
        LET signing == binary_serialize(tx, TRUE)
            id == Ripemd160Digest(Sha256Digest(op.arg))
            middle == SubSeq(buf, 5, Len(buf) - 20)
        IN  /\ Len(op.arg) = 33
            /\ Len(id) = 20
            /\ Len(buf) = 4 + Len(signing) + 20
            /\ SubSeq(buf, 1, 4) = <<83, 77, 84, 0>>
            /\ middle = signing
            /\ SubSeq(buf, Len(buf) - 19, Len(buf)) = id
            /\ middle = Flatten(Encodings(FieldsButSignature(tx), FALSE))
            /\ Len(middle) = Len(binary_serialize(tx, FALSE)) - Len(SignatureBlock(tx))
    /\ (tx # NoTx /\ op.name = "digest_for_multi_signing") =>
        LET preimage == <<83, 77, 84, 0>> \o binary_serialize(tx, TRUE)
                            \o Ripemd160Digest(Sha256Digest(op.arg))
            hash == Sha512Digest(preimage)
        IN  /\ Len(hash) = 64
            /\ Len(buf) = 32
            /\ buf = SubSeq(hash, 1, 32)

\* a signer list with a signature attached, encoded for the second signer
C24_Witness ==
    /\ tx # NoTx
    /\ tx.kind = "SignerListSet"
    /\ Len(tx.txn_signature.inner.v) = 65
    /\ op.name = "encode_for_multi_signing"
    /\ op.arg[1] = 2
    /\ SubSeq(buf, 1, 4) = <<83, 77, 84, 0>>
    /\ Len(buf) > 24

\* C29: digest_for_multi_signing(tx, pk) returns the same 32 bytes as
\* digest_for_multi_signing_pre(tx.binary_serialize(true), pk): both hash the
\* prefix 53 4D 54 00, the signing form and the account id of pk; the
\* result does not change when a signature is attached to tx.
C29_DigestEntryPointsAgree ==
    /\ (tx # NoTx /\ op.name = "digest_for_multi_signing") =>
        /\ buf = digest_for_multi_signing_pre(binary_serialize(tx, TRUE), op.arg)
        /\ buf = digest_for_multi_signing(Unsigned(tx), op.arg)
        /\ \A signature \in Signatures :
            buf = digest_for_multi_signing(attach_signature(tx, signature), op.arg)
    /\ (tx # NoTx /\ op.name = "digest_for_multi_signing_pre" /\ op.for_signing) =>
        /\ Len(buf) = 32
        /\ buf = digest_for_multi_signing(tx, op.arg)
        /\ buf = SubSeq(Sha512Digest(encode_for_multi_signing(tx, op.arg)), 1, 32)

\* the digest of the signing form of a signed payment, taken through the pre entry point
C29_Witness ==
    /\ tx # NoTx
    /\ tx.kind = "Payment"
    /\ Len(tx.txn_signature.inner.v) = 65
    /\ op.name = "digest_for_multi_signing_pre"
    /\ op.for_signing
    /\ Len(buf) = 32
    /\ buf = digest_for_multi_signing(Unsigned(tx), op.arg)

====
